---- MODULE Spec2Model ----
(***************************************************************************)
(* Retrieval-and-fusion pipeline of the UIC policy RAG backend:            *)
(*   - chunk_blocks            (components/chunking.py)                    *)
(*   - EnhancedRAGBackendV2    (rag_backend.py) with rerank_worker.py      *)
(*   - rrf_fuse                (components/rrf_fusion.py)                  *)
(* Python 0-based offsets are kept; a text is a sequence of one-character  *)
(* strings, so text[i] of the source is text[i + 1] here.                  *)
(***************************************************************************)
EXTENDS Integers, Sequences, FiniteSets, TLC

\* ------------------------------------------------------------------ bounds
MaxText == 3
MaxParas == 2
MaxBlocks == 2
MaxSize == 3
MaxOverlap == 2
MaxChunks == 2
MaxTopK == 2
MaxLists == 2
MaxListLen == 2
MaxRankers == 4
MaxSeeds == 2
MaxTriples == 3
MaxBeam == 2
MaxLength == 3
MaxBuildChunks == 2
MaxReplyItems == 2

\* ------------------------------------------------------- generic helpers
Min(a, b) == IF a < b THEN a ELSE b
Max(a, b) == IF a > b THEN a ELSE b
Range(s) == {s[i] : i \in 1..Len(s)}

\* Python's None for an optional integer: <<>> is None, <<x>> is x.
None == <<>>
Some(x) == <<x>>

\* =================================================================
\*  chunk_blocks
\* =================================================================
Alphabet == {"a", ".", " ", "\n"}
Whitespace == {" ", "\n"}

\* text[a:b] of the source for 0 <= a (a slice is clamped to the text)
Slice(text, a, b) ==
  LET e == Min(b, Len(text))
  IN IF e <= a THEN <<>> ELSE SubSeq(text, a + 1, e)

\* str.strip()
Strip(s) ==
  LET keep == {i \in 1..Len(s) : s[i] \notin Whitespace}
  IN IF keep = {} THEN <<>>
     ELSE LET lo == CHOOSE i \in keep : \A j \in keep : i <= j
              hi == CHOOSE i \in keep : \A j \in keep : i >= j
          IN SubSeq(s, lo, hi)

\* the separators of _find_natural_split, in priority order
Separators == << <<"\n", "\n">>, <<"\n">>, <<".", " ">>, <<" ">> >>

NotFound == -1

\* text.rfind(sep, start, end_)
RFind(text, sep, start, end_) ==
  LET hits == {i \in start..(end_ - Len(sep)) : Slice(text, i, i + Len(sep)) = sep}
  IN IF hits = {} THEN NotFound
     ELSE CHOOSE i \in hits : \A j \in hits : i >= j

RECURSIVE SplitFrom(_, _, _, _)
SplitFrom(k, text, start, hard_end) ==
  IF k > Len(Separators) THEN hard_end
  ELSE LET sep == Separators[k]
           idx == RFind(text, sep, start, hard_end)
       IN IF idx /= NotFound /\ idx + Len(sep) <= hard_end
          THEN idx + Len(sep)
          ELSE SplitFrom(k + 1, text, start, hard_end)

_find_natural_split(text, start, hard_end) == SplitFrom(1, text, start, hard_end)

\* paragraphs loop of chunk_blocks: joins the stripped non-empty paragraphs
\* with "\n\n" and records (start, end, para_idx) of each
RECURSIVE AddParagraphs(_, _, _, _)
AddParagraphs(paragraphs, i, text, spans) ==
  IF i > Len(paragraphs) THEN [text |-> text, para_spans |-> spans]
  ELSE LET p_text == Strip(paragraphs[i])
       IN IF p_text = <<>>
          THEN AddParagraphs(paragraphs, i + 1, text, spans)
          ELSE LET joined == IF text /= <<>> THEN text \o <<"\n", "\n">> ELSE text
                   start == Len(joined)
                   end_ == start + Len(p_text)
               IN AddParagraphs(paragraphs, i + 1, joined \o p_text,
                                Append(spans, <<start, end_, i - 1>>))

\* block_text and para_spans of one block (heading is None or a string)
BuildBlock(heading, paragraphs) ==
  LET h_text == IF heading = None THEN <<>> ELSE Strip(heading[1])
      built == AddParagraphs(paragraphs, 1, h_text, <<>>)
  IN [text |-> Strip(built.text), para_spans |-> built.para_spans]

\* mutant of HardEnd: the window end is not clamped to the text
HardEndUnclamped(text_len, p, size) == p + size

\* "hard_end = min(text_len, pos + max_size)"
HardEnd(text_len, p, size) == Min(text_len, p + size)

\* split_at of one window, with the "split_at <= pos" fallback
SplitAt(text, p, hard_end) ==
  LET s == _find_natural_split(text, p, hard_end)
  IN IF s <= p THEN hard_end ELSE s

\* paragraph indices whose span intersects [chunk_start, chunk_end)
RECURSIVE TouchedFrom(_, _, _, _)
TouchedFrom(spans, i, chunk_start, chunk_end) ==
  IF i > Len(spans) THEN <<>>
  ELSE LET rest == TouchedFrom(spans, i + 1, chunk_start, chunk_end)
       IN IF spans[i][1] < chunk_end /\ spans[i][2] > chunk_start
          THEN <<spans[i][3]>> \o rest
          ELSE rest

\* the test on closed intervals: a paragraph that only abuts the chunk counts
TouchedParasClosed(spans, chunk_start, chunk_end) ==
  LET hit == SelectSeq(spans, LAMBDA sp : sp[1] <= chunk_end /\ sp[2] >= chunk_start)
  IN [i \in 1..Len(hit) |-> hit[i][3]]

TouchedParas(spans, chunk_start, chunk_end) == TouchedFrom(spans, 1, chunk_start, chunk_end)

\* the chunk record appended for the window [p, split_at)
ChunkMeta(b_idx, spans, p, split_at, chunk_text) ==
  LET touched == TouchedParas(spans, p, split_at)
  IN [block_index |-> b_idx,
      paragraph_index |-> IF touched = <<>> THEN None ELSE Some(touched[1]),
      paragraph_indices |-> touched,
      char_span |-> <<p, split_at>>,
      text |-> chunk_text]

\* the cursor moves to the split point, whatever the overlap
AdvanceNoOverlap(p, split_at, ov) == split_at

\* mutant of Advance: the fallback is taken only when next_pos < pos
AdvanceWeak(p, split_at, ov) ==
  LET next_pos == split_at - ov
  IN IF next_pos >= p THEN next_pos ELSE split_at

\* "pos = next_pos if next_pos > pos else split_at"
Advance(p, split_at, ov) ==
  LET next_pos == split_at - ov
  IN IF next_pos > p THEN next_pos ELSE split_at

\* "pos = hard_end" of the empty-window branch
SkipEmpty(p, split_at, hard_end) == hard_end

\* =================================================================
\*  EnhancedRAGBackendV2: load
\* =================================================================
Variants == {"content", "tfidf", "prefix"}
IndexFiles == Variants \cup {"legacy"}

\* the key "chunk_<i>" of metadata.json and of the id mapping
ChunkKey(i) == <<"chunk", i>>

\* the record metadata.json holds under "chunk_<i>"
ChunkRecord(i) == [chunk_id |-> i]

NoIndex == [file |-> "none", ntotal |-> 0]

\* _load_indices: the three-index format when all three files exist (an
\* unknown index_choice becomes "prefix"), else index.faiss, else
\* FileNotFoundError
LoadIndices(files, nvec, choice) ==
  IF Variants \subseteq files
  THEN LET c == IF choice \notin Variants THEN "prefix" ELSE choice
       IN [ok |-> TRUE, index_choice |-> c, index |-> [file |-> c, ntotal |-> nvec]]
  ELSE IF "legacy" \notin files
       THEN [ok |-> FALSE, index_choice |-> choice, index |-> NoIndex]
       ELSE [ok |-> TRUE, index_choice |-> choice, index |-> [file |-> "legacy", ntotal |-> nvec]]

\* _load_metadata: all_chunks[i] = metadata[index_to_id[i]] for i in
\* range(len(index_to_id)); a missing key is a KeyError
LoadMetadata(meta, i2id) ==
  LET n == Cardinality(DOMAIN i2id)
      ok == \A i \in 0..(n - 1) : i \in DOMAIN i2id /\ i2id[i] \in DOMAIN meta
  IN [ok |-> ok,
      all_chunks |-> IF ok THEN [i \in 1..n |-> meta[i2id[i - 1]]] ELSE <<>>]

\* metadata.json and id_mapping.pkl as save_three_indices writes them for m chunks
BuiltMetadata(m) == [key \in {ChunkKey(i) : i \in 0..(m - 1)} |-> ChunkRecord(key[2])]
BuiltIndexToId(m) == [i \in 0..(m - 1) |-> ChunkKey(i)]

\* =================================================================
\*  EnhancedRAGBackendV2: retrieval
\* =================================================================
CandidateFactor == 3
MinCandidates == 30
PlaceholderScore == 1
Padding == -1

\* sorted(..., key=lambda x: x[2], reverse=True) on a sequence of pairs:
\* descending by the second component, equal keys keep their input order
\* items[j] goes before items[i] in the sorted list
GoesBefore(items, j, i) ==
  items[j][2] > items[i][2] \/ (items[j][2] = items[i][2] /\ j < i)

\* the sorted list of the list value v
SortedValue(v) ==
  CHOOSE out \in {[p \in 1..Len(v) |-> v[CHOOSE i \in 1..Len(v) : ahead[i] = p - 1]] :
                    ahead \in {[i \in 1..Len(v) |->
                                 Cardinality({j \in 1..Len(v) : GoesBefore(v, j, i)})]}} : TRUE

SortDesc(items) == CHOOSE out \in {SortedValue(v) : v \in {items}} : TRUE

\* list[:n]
Take(list, n) == SubSeq(list, 1, Min(n, Len(list)))

\* index.search(q_emb, k) of a flat inner-product index: the k best
\* positions by descending similarity, missing hits padded with -1
FaissSearch(ntotal, sim, k) ==
  LET ranked == SortDesc([i \in 1..ntotal |-> <<i - 1, sim[i - 1]>>])
  IN [j \in 1..k |-> IF j <= ntotal THEN ranked[j][1] ELSE Padding]

\* list[idx] of Python: a negative idx counts from the end
InRange(list, idx) == -Len(list) <= idx /\ idx < Len(list)
PyIndex(list, idx) == IF idx >= 0 THEN list[idx + 1] ELSE list[Len(list) + idx + 1]

\* "candidate_k = max(top_k * 3, 30)"
CandidateK(top_k) == Max(top_k * CandidateFactor, MinCandidates)

\* mutant of ReplyCause: the exit code of the worker is not looked at
ReplyCauseNoExitCode(returncode, stdout) ==
  IF stdout = "not_json" THEN "json_decode"
  ELSE IF stdout = "error" THEN "error_field"
  ELSE IF stdout = "no_scores" THEN "key_error"
  ELSE "none"

\* the exception retrieve_with_reranking raises inside its try block for a
\* worker that exited with returncode and wrote stdout ("none": no exception)
ReplyCause(returncode, stdout) ==
  IF returncode /= 0 THEN "exit_code"
  ELSE IF stdout = "not_json" THEN "json_decode"
  ELSE IF stdout = "error" THEN "error_field"
  ELSE IF stdout = "no_scores" THEN "key_error"
  ELSE "none"

\* "return candidate_indices[:top_k], [1.0] * min(len(candidate_indices), top_k)"
Fallback(candidates, top_k) ==
  [indices |-> Take(candidates, top_k),
   scores |-> [j \in 1..Min(Len(candidates), top_k) |-> PlaceholderScore]]

\* mutant of Reranked: the candidates are cut to top_k before they are sorted
RerankedCutFirst(candidates, scores, top_k) ==
  LET combined == [j \in 1..Min(Len(candidates), Len(scores)) |-> <<candidates[j], scores[j]>>]
  IN CHOOSE r \in {[indices |-> [j \in 1..Len(top_results) |-> top_results[j][1]],
                    scores |-> [j \in 1..Len(top_results) |-> top_results[j][2]]] :
                     top_results \in {SortDesc(Take(combined, top_k))}} : TRUE

\* steps 4 and 5 of retrieve_with_reranking: zip, sort by score descending, cut
Reranked(candidates, scores, top_k) ==
  LET combined == [j \in 1..Min(Len(candidates), Len(scores)) |-> <<candidates[j], scores[j]>>]
  IN CHOOSE r \in {[indices |-> [j \in 1..Len(top_results) |-> top_results[j][1]],
                    scores |-> [j \in 1..Len(top_results) |-> top_results[j][2]]] :
                     top_results \in {Take(SortDesc(combined), top_k)}} : TRUE

\* the scores rerank_worker.py prints: one per chunk text it was sent
WorkerScores(texts, score_of) == [j \in 1..Len(texts) |-> score_of[texts[j]]]

\* mutant of CommunicateReturns: the reply is read while the worker runs
CommunicateReturnsEarly(state) == state \in {"running", "exited"}

\* "stdout, stderr = process.communicate(input=...)" returns once the worker
\* process has ended
CommunicateReturns(state) == state = "exited"

\* the position of list[idx] in the 1-based sequence
PyPosition(list, idx) == IF idx >= 0 THEN idx + 1 ELSE Len(list) + idx + 1

\* mutant of ScoredCopy: score and retrieval_index are written to the record
\* of the chunk list itself
ScoredInPlace(chunk_list, idx, score) ==
  LET chunk == [chunk_id |-> PyIndex(chunk_list, idx).chunk_id,
                score |-> score, retrieval_index |-> idx]
  IN [all_chunks |-> [chunk_list EXCEPT ![PyPosition(chunk_list, idx)] = chunk],
      chunk |-> chunk]

\* "chunk = self.all_chunks[idx].copy()", "chunk['score'] = float(score)",
\* "chunk['retrieval_index'] = int(idx)": the record handed out, and the
\* chunk list as the three statements leave it
ScoredCopy(chunk_list, idx, score) ==
  [all_chunks |-> chunk_list,
   chunk |-> [chunk_id |-> PyIndex(chunk_list, idx).chunk_id,
              score |-> score, retrieval_index |-> idx]]

\* the result loop of retrieve over zip(indices, scores), from pair j on
RECURSIVE BuildFrom(_, _, _, _, _)
BuildFrom(chunk_list, indices, scores, j, results) ==
  IF j > Min(Len(indices), Len(scores)) THEN [all_chunks |-> chunk_list, results |-> results]
  ELSE LET r == ScoredCopy(chunk_list, indices[j], scores[j])
       IN BuildFrom(r.all_chunks, indices, scores, j + 1, Append(results, r.chunk))

\* "not self.gear_triples": None and the empty list are both false
NoTriples(triples) == triples = None \/ Len(triples[1]) = 0

\* "self.use_gear = use_gear and GEAR_AVAILABLE", "self.gear_triples = None",
\* "if self.use_gear: self._load_gear_triples()"; file is None when
\* gear_triples.json does not exist, else the list it holds
LoadGearTriples(use_gear_arg, file) ==
  IF use_gear_arg /\ file /= None
  THEN [use_gear |-> TRUE, gear_triples |-> file]
  ELSE [use_gear |-> FALSE, gear_triples |-> None]

\* list.index(x): the first position of x in the list
ListIndex(list, x) == CHOOSE j \in 1..Len(list) : list[j] = x /\ \A i \in 1..(j - 1) : list[i] /= x

\* =================================================================
\*  rrf_fuse
\* =================================================================
DefaultK == 60

\* Scores are Python floats, IEEE-754 doubles: every division and every
\* addition is rounded to 53 significant bits, to nearest, ties to even. A
\* double x with 0 <= x < 2^7 that is a multiple of 2^-60 is carried as the
\* integer x * 2^60, written in NumLimbs limbs of LimbBits bits, lowest limb
\* first; every score rrf_fuse forms from denominators below 2^7 is such a
\* double.
MantissaBits == 53
LimbBits == 15
NumLimbs == 5
LimbBase == 2^LimbBits

\* 0.0, the default of defaultdict(float)
FloatZero == [i \in 1..NumLimbs |-> 0]

\* 1.0
FloatOne == [i \in 1..NumLimbs |-> IF i = NumLimbs THEN 1 ELSE 0]

RECURSIVE BitLength(_)
BitLength(n) == IF n = 0 THEN 0 ELSE 1 + BitLength(n \div 2)

\* number of significant bits of x * 2^60
FloatBits(x) ==
  IF x = FloatZero THEN 0
  ELSE LET top == CHOOSE i \in 1..NumLimbs :
                     x[i] /= 0 /\ \A j \in (i + 1)..NumLimbs : x[j] = 0
       IN (top - 1) * LimbBits + BitLength(x[top])

\* the exact sum of x and y
RECURSIVE AddLimbs(_, _, _, _)
AddLimbs(x, y, i, carry) ==
  IF i > NumLimbs THEN <<>>
  ELSE <<(x[i] + y[i] + carry) % LimbBase>>
         \o AddLimbs(x, y, i + 1, (x[i] + y[i] + carry) \div LimbBase)

\* x rounded to MantissaBits significant bits, to nearest, ties to even;
\* inexact: x is the truncation of a value that lies strictly above it
RoundNearestEven(x, inexact) ==
  LET drop == FloatBits(x) - MantissaBits
  IN IF drop <= 0 THEN x
     ELSE LET unit == 2^drop
              low == x[1] % unit
              odd == (x[1] \div unit) % 2 = 1
              down == [x EXCEPT ![1] = x[1] - low]
              up == low > unit \div 2 \/ (low = unit \div 2 /\ (inexact \/ odd))
          IN IF up
             THEN AddLimbs(down, [i \in 1..NumLimbs |-> IF i = 1 THEN unit ELSE 0], 1, 0)
             ELSE down

\* the float x + y
FloatAdd(x, y) ==
  CHOOSE f \in {RoundNearestEven(sum, FALSE) :
                  sum \in {AddLimbs(a, b, 1, 0) : a \in {x}, b \in {y}}} : TRUE

\* limbs 1..i of the quotient of (r * LimbBase^i + x) by n, and the remainder
RECURSIVE DivLimbs(_, _, _, _)
DivLimbs(x, n, i, r) ==
  IF i = 0 THEN [q |-> <<>>, r |-> r]
  ELSE CHOOSE out \in
         {[q |-> Append(rest.q, t \div n), r |-> rest.r] :
            rest \in {DivLimbs(x, n, i - 1, t % n) : t \in {r * LimbBase + x[i]}},
            t \in {r * LimbBase + x[i]}} : TRUE

\* the float 1.0 / n, for an int n with 1 <= n < 2^7
FloatOneOver(n) ==
  CHOOSE f \in {RoundNearestEven(d.q, d.r /= 0) : d \in {DivLimbs(FloatOne, n, NumLimbs, 0)}} : TRUE

\* x < y on floats
FloatLess(x, y) ==
  \E i \in 1..NumLimbs : x[i] < y[i] /\ \A j \in (i + 1)..NumLimbs : x[j] = y[j]

\* mutant of Reciprocal: every rank counts like the first
ReciprocalIgnoresRank(k, rank) == FloatOneOver(k + 1)

\* mutant of Reciprocal: the rank is taken as 1-based already
ReciprocalNoPlusOne(k, rank) == FloatOneOver(k + rank)

\* "1.0 / (k + rank + 1)"
Reciprocal(k, rank) == FloatOneOver(k + rank + 1)

\* every occurrence of an id gets an item of its own
DictAppend(scores, doc_id, v) == Append(scores, <<doc_id, FloatAdd(FloatZero, v)>>)

\* "scores[doc_id] += v" on a defaultdict(float), kept as the sequence of
\* its items in insertion order
DictAdd(scores, doc_id, v) ==
  IF \E j \in 1..Len(scores) : scores[j][1] = doc_id
  THEN [j \in 1..Len(scores) |->
          IF scores[j][1] = doc_id THEN <<doc_id, FloatAdd(scores[j][2], v)>>
          ELSE scores[j]]
  ELSE Append(scores, <<doc_id, FloatAdd(FloatZero, v)>>)

RECURSIVE AccumulateList(_, _, _, _)
AccumulateList(r_list, pos1, k, scores) ==
  IF pos1 > Len(r_list) THEN scores
  ELSE CHOOSE out \in
         {AccumulateList(r_list, pos1 + 1, k, added) :
            added \in {DictAdd(scores, r_list[pos1], Reciprocal(k, pos1 - 1))}} : TRUE

\* the double loop of rrf_fuse
RECURSIVE AccumulateAll(_, _, _, _)
AccumulateAll(lists, li, k, scores) ==
  IF li > Len(lists) THEN scores
  ELSE CHOOSE out \in
         {AccumulateAll(lists, li + 1, k, added) :
            added \in {AccumulateList(lists[li], 1, k, scores)}} : TRUE

\* mutant of RrfSorted: equal scores come out in reverse insertion order
RrfSortedTiesReversed(scores) ==
  LET n == Len(scores)
      before(i) == Cardinality({j \in 1..n : \/ FloatLess(scores[i][2], scores[j][2])
                                              \/ (scores[j][2] = scores[i][2] /\ j > i)})
  IN [p \in 1..n |-> scores[CHOOSE i \in 1..n : before(i) = p - 1]]

\* "sorted(scores.items(), key=lambda x: x[1], reverse=True)": descending by
\* the float score, equal scores keep their insertion order
RrfSorted(scores) ==
  LET n == Len(scores)
      before(i) == Cardinality({j \in 1..n : \/ FloatLess(scores[i][2], scores[j][2])
                                              \/ (scores[j][2] = scores[i][2] /\ j < i)})
  IN [p \in 1..n |-> scores[CHOOSE i \in 1..n : before(i) = p - 1]]

\* rrf_fuse(rank_lists, k): "return [doc_id for doc_id, _ in sorted_docs]"
RrfFuse(rank_lists, k) ==
  CHOOSE fused \in {[j \in 1..Len(sorted_docs) |-> sorted_docs[j][1]] :
                      sorted_docs \in {RrfSorted(accumulated) :
                                        accumulated \in {AccumulateAll(rank_lists, 1, k, <<>>)}}} : TRUE

\* "fused_indices = rrf_fuse([dense_indices, gear_indices], k=60)"
FusionK == 60

\* retrieve_with_gear_fusion after its reranking call: gear_indices is
\* dense_indices, the two lists are fused and cut to top_k, and every fused
\* id gets dense_scores[dense_indices.index(idx)]; every fused id is in
\* dense_indices, so the 0.5 of the else branch is never taken
GearFused(dense_indices, dense_scores, top_k) ==
  CHOOSE r \in {[indices |-> fused_indices,
                  scores |-> [j \in 1..Len(fused_indices) |->
                                dense_scores[ListIndex(dense_indices, fused_indices[j])]]] :
                   fused_indices \in
                     {Take(RrfFuse(<<dense_indices, dense_indices>>, FusionK), top_k)}} : TRUE

\* =================================================================
\*  diverse_triple_beam_search (components/gear_beam_search.py)
\* =================================================================
\* A score is the rational <<numerator, denominator>> in lowest terms.  For the
\* similarities and gammas drawn below every product and sum of the code is
\* exact in binary64 and every quotient is the rounding of a rational with a
\* denominator of at most 96, so the float comparisons of the sorts order and
\* tie exactly as the rationals do.
RECURSIVE GCD(_, _)
GCD(a, b) == IF b = 0 THEN a ELSE GCD(b, a % b)

Abs(n) == IF n < 0 THEN -n ELSE n

Rational(n, d) ==
  IF n = 0 THEN <<0, 1>> ELSE <<n \div GCD(Abs(n), d), d \div GCD(Abs(n), d)>>

RatLess(a, b) == a[1] * b[2] < b[1] * a[2]

\* s0, _, o0 = triple ... if s == s0 or s == o0 or o == s0 or o == o0
SharesEntity(t, triple) ==
  t[1] = triple[1] \/ t[1] = triple[3] \/ t[3] = triple[1] \/ t[3] = triple[3]

\* get_neighbors: the triples of all_triples, in their order and with their
\* repetitions, that differ from triple and share its subject or object
get_neighbors(triple, triples) ==
  SelectSeq(triples, LAMBDA t : t /= triple /\ SharesEntity(t, triple))

\* the neighbour may only have been visited as the chain's last triple
UnvisitedLastOnly(seq, neighbor) == neighbor /= seq[Len(seq)]

\* if neighbor in seq: continue
Unvisited(seq, neighbor) == neighbor \notin Range(seq)

\* avg_score = (score * len(seq) + new_score) / len(new_seq)
AvgScore(score, seq_len, new_score) ==
  Rational(score[1] * seq_len * new_score[2] + new_score[1] * score[2],
           score[2] * new_score[2] * (seq_len + 1))

\* the candidates of one beam, in the order of all_triples
Extensions(beam, triples, score_of) ==
  LET seq == beam[2]
      next == SelectSeq(get_neighbors(seq[Len(seq)], triples),
                        LAMBDA t : Unvisited(seq, t))
  IN [j \in 1..Len(next) |->
        <<AvgScore(beam[1], Len(seq), score_of[next[j]]), Append(seq, next[j])>>]

\* the candidates list of one iteration: beam by beam
RECURSIVE Candidates(_, _, _, _)
Candidates(bs, b, triples, score_of) ==
  IF b > Len(bs) THEN <<>>
  ELSE Extensions(bs[b], triples, score_of) \o Candidates(bs, b + 1, triples, score_of)

\* a multiplier that grows with the rank
PenaltyGrowing(rank, g) == IF rank = 0 /\ g /= "0.0" THEN <<1, 2>> ELSE <<1, 1>>

\* math.exp(-min(rank, gamma)) for the gammas 0.0 and log(2): exp(-0) is 1.0 and
\* exp(-log(2)) is 0.5, both exact
Penalty(rank, g) == IF rank = 0 \/ g = "0.0" THEN <<1, 1>> ELSE <<1, 2>>

\* score * penalty
Penalized(score, penalty) == Rational(score[1] * penalty[1], score[2] * penalty[2])

\* the list sorted by a key taken from the end of the list among equal scores
SortedByScoreTiesReversed(items) ==
  CHOOSE out \in {[p \in 1..Len(v) |->
                     v[CHOOSE i \in 1..Len(v) :
                         Cardinality({j \in 1..Len(v) :
                                        \/ RatLess(v[i][1], v[j][1])
                                        \/ (v[j][1] = v[i][1] /\ j > i)}) = p - 1]]
                  : v \in {items}} : TRUE

\* sorted(items, key=lambda x: x[0], reverse=True): descending by score, equal
\* scores keep their order in items
SortedByScore(items) ==
  CHOOSE out \in {[p \in 1..Len(v) |->
                     v[CHOOSE i \in 1..Len(v) :
                         Cardinality({j \in 1..Len(v) :
                                        \/ RatLess(v[i][1], v[j][1])
                                        \/ (v[j][1] = v[i][1] /\ j < i)}) = p - 1]]
                  : v \in {items}} : TRUE

\* for rank, (score, path) in enumerate(candidates): penalized.append(...)
PenalizedList(sorted, g) ==
  [r \in 1..Len(sorted) |-> <<Penalized(sorted[r][1], Penalty(r - 1, g)), sorted[r][2]>>]

VARIABLES
  max_size,     \* argument of chunk_blocks
  overlap,      \* argument of chunk_blocks
  input_left,   \* heading and paragraph characters the caller may still supply
  block_idx,    \* enumerate index of the current block (-1 before the first)
  block_text,   \* block_text of the current block
  para_spans,   \* para_spans of the current block
  pos,          \* cursor of the sliding loop
  chunks,       \* the result list
  iters,        \* iterations of the sliding loop run for the current block
  ck_pc         \* "for": at the block loop (where the call returns once the list is
                \* exhausted), "while": in the sliding loop, "idle": no call

VARIABLES
  fs_files,          \* which of the index files exist in embedding_dir
  fs_nvec,           \* number of vectors in the index files that exist
  fs_metadata,       \* metadata.json
  fs_index_to_id,    \* index_to_id of id_mapping.pkl
  arg_index_choice,  \* constructor argument index_choice
  use_reranker,      \* self.use_reranker
  index_choice,      \* self.index_choice
  index,             \* self.index: the file it was read from and its ntotal
  metadata,          \* self.metadata
  index_to_id,       \* self.index_to_id
  all_chunks,        \* self.all_chunks
  use_gear,          \* self.use_gear
  gear_triples,      \* self.gear_triples: None, or the list read from gear_triples.json
  be_pc,             \* constructor: "init", "indices", "loaded", "error"; "off": no backend
  clients,           \* the query-handling units of this run
  call,              \* per client: the locals of its running retrieval call
  worker             \* per client: the rerank_worker.py process its call spawned

chunkVars == <<max_size, overlap, input_left, block_idx, block_text, para_spans,
               pos, chunks, iters, ck_pc>>

fsVars == <<fs_files, fs_nvec, fs_metadata, fs_index_to_id, arg_index_choice>>

loadedVars == <<use_reranker, index_choice, index, metadata, index_to_id, all_chunks,
                use_gear, gear_triples>>

queryVars == <<clients, call, worker>>

VARIABLES
  rank_lists,   \* argument of rrf_fuse
  k_arg,        \* argument k of rrf_fuse: None when the caller leaves it out
  scores,       \* the score dictionary, as its items in insertion order
  fused_list,   \* the returned list
  rrf_pc        \* "call", "scored", "done"; "idle": no call

VARIABLES
  T_q,          \* argument of diverse_triple_beam_search: the seed triples
  all_triples,  \* argument all_triples
  beam_size,    \* argument beam_size
  max_length,   \* argument max_length
  gamma,        \* argument gamma
  scorer,       \* the module globals model and util that score_triple reads: None
                \* while they are unbound, else the similarity they give each triple
  beams,        \* beams
  candidates,   \* the candidates of the last iteration as appended, before the sorts
  expansions,   \* iterations of the expansion loop run so far
  paths,        \* the returned list
  bm_pc         \* "call", "loop", "done", "raised"; "idle": no call

backendVars == <<fsVars, loadedVars, be_pc, queryVars>>

rrfVars == <<rank_lists, k_arg, scores, fused_list, rrf_pc>>

beamVars == <<T_q, all_triples, beam_size, max_length, gamma, scorer, beams,
              candidates, expansions, paths, bm_pc>>

VARIABLES
  build_chunks,       \* the chunk list build() works on
  build_use_gear,     \* self.use_gear of the builder
  build_env_key,      \* os.environ["OPENAI_API_KEY"]: None when unset
  build_client,       \* the module global client of gear_triples.py
  build_i,            \* loop index of extract_gear_triples, then of save_three_indices
  build_raw,          \* the reply of the completion call for chunk build_i
  build_triples,      \* all_triples of extract_gear_triples
  build_texts,        \* per variant, the texts of prepare_three_text_variants
  build_indices,      \* per variant, the vectors of the index in the order added
  build_metadata,     \* metadata of save_three_indices, then metadata.json
  build_id_to_index,  \* id_to_index, then id_mapping.pkl
  build_index_to_id,  \* index_to_id, then id_mapping.pkl
  build_all_chunks,   \* all_chunks of a backend constructed on the output directory
  build_pc            \* the step build() is at; "off": no build

buildVars == <<build_chunks, build_use_gear, build_env_key, build_client, build_i,
               build_raw, build_triples, build_texts, build_indices, build_metadata,
               build_id_to_index, build_index_to_id, build_all_chunks, build_pc>>

vars == <<chunkVars, backendVars, rrfVars, beamVars, buildVars>>

\* what the actions of one component leave alone
nonChunkVars == <<backendVars, rrfVars, beamVars, buildVars>>
nonBackendVars == <<chunkVars, rrfVars, beamVars, buildVars>>
nonRrfVars == <<chunkVars, backendVars, beamVars, buildVars>>
nonBeamVars == <<chunkVars, backendVars, rrfVars, buildVars>>
nonBuildVars == <<chunkVars, backendVars, rrfVars, beamVars>>

\* --- inputs of the chunker
RECURSIVE TextsOfLen(_)
TextsOfLen(n) ==
  IF n = 0 THEN {<<>>}
  ELSE {Append(t, c) : t \in TextsOfLen(n - 1), c \in Alphabet}

\* stripped texts of at most n characters (the empty text included)
Cores(n) ==
  {t \in UNION {TextsOfLen(k) : k \in 0..n} :
     t = <<>> \/ (t[1] \notin Whitespace /\ t[Len(t)] \notin Whitespace)}

\* at most k paragraphs holding at most `budget` characters between them
RECURSIVE ParaLists(_, _)
ParaLists(k, budget) ==
  {<<>>} \cup
  (IF k = 0 THEN {}
   ELSE UNION {{<<p>> \o rest : rest \in ParaLists(k - 1, budget - Len(p))} :
               p \in Cores(budget)})

\* the blocks whose heading and paragraphs hold at most `budget` characters
BlockInputsFor(budget) ==
  UNION {{[heading |-> h, paragraphs |-> ps] : ps \in ParaLists(MaxParas, budget - Len(h))} :
         h \in Cores(budget)}

RECURSIVE SumLen(_, _)
SumLen(ps, i) == IF i > Len(ps) THEN 0 ELSE Len(ps[i]) + SumLen(ps, i + 1)

InputSize(inp) == Len(inp.heading) + SumLen(inp.paragraphs, 1)

BlockInputs == [b \in 0..MaxText |-> BlockInputsFor(b)]

\* whitespace the caller may leave around a heading or a paragraph
Pads == {<<>>, <<" ", "\n">>}

ChunkInit ==
  /\ max_size \in 1..MaxSize
  /\ overlap \in 0..MaxOverlap
  /\ input_left = MaxText
  /\ block_idx = -1
  /\ block_text = <<>>
  /\ para_spans = <<>>
  /\ pos = 0
  /\ chunks = <<>>
  /\ iters = 0
  /\ ck_pc = "for"

\* for block_idx, block in enumerate(blocks): build block_text; an empty one is skipped
ForBlock ==
  /\ ck_pc = "for"
  /\ block_idx + 1 < MaxBlocks
  /\ \E inp \in BlockInputs[input_left], pad \in Pads :
       LET heading == IF inp.heading = <<>> /\ pad = <<>> THEN None
                      ELSE Some(pad \o inp.heading \o pad)
           paragraphs == [i \in 1..Len(inp.paragraphs) |-> pad \o inp.paragraphs[i] \o pad]
           built == BuildBlock(heading, paragraphs)
       IN /\ block_idx' = block_idx + 1
          /\ block_text' = built.text
          /\ para_spans' = built.para_spans
          /\ input_left' = input_left - InputSize(inp)
          /\ pos' = 0
          /\ iters' = 0
          /\ ck_pc' = IF built.text = <<>> THEN "for" ELSE "while"
  /\ UNCHANGED <<max_size, overlap, chunks>>
  /\ UNCHANGED nonChunkVars

\* one iteration of "while pos < text_len"
WhileStep ==
  /\ ck_pc = "while"
  /\ pos < Len(block_text)
  /\ LET text_len == Len(block_text)
         hard_end == HardEnd(text_len, pos, max_size)
         split_at == SplitAt(block_text, pos, hard_end)
         chunk_text == Strip(Slice(block_text, pos, split_at))
     IN IF chunk_text = <<>>
        THEN /\ pos' = SkipEmpty(pos, split_at, hard_end)
             /\ chunks' = chunks
             /\ ck_pc' = IF pos' < text_len THEN "while" ELSE "for"
        ELSE /\ chunks' = Append(chunks, ChunkMeta(block_idx, para_spans, pos, split_at, chunk_text))
             /\ pos' = Advance(pos, split_at, overlap)
             /\ ck_pc' = IF pos' < text_len THEN "while" ELSE "for"
  /\ iters' = iters + 1
  /\ UNCHANGED <<max_size, overlap, input_left, block_idx, block_text, para_spans>>
  /\ UNCHANGED nonChunkVars

ChunkNext == ForBlock \/ WhileStep

\* no chunk_blocks call in this run
ChunkIdle ==
  /\ max_size = 1
  /\ overlap = 0
  /\ input_left = 0
  /\ block_idx = -1
  /\ block_text = <<>>
  /\ para_spans = <<>>
  /\ pos = 0
  /\ chunks = <<>>
  /\ iters = 0
  /\ ck_pc = "idle"

\* =================================================================
\*  EnhancedRAGBackendV2: state machine
\* =================================================================
Clients == {"q1", "q2"}
IndexChoices == Variants \cup {"other"}
SimValues == {1, 2}
ScoreValues == {1, 2}
ExitCodes == {0, 1}
Stdouts == {"scores", "error", "no_scores", "not_json"}
Ops == {"retrieve", "retrieve_with_reranking", "retrieve_dense",
        "retrieve_with_gear_fusion", "generate_answer"}

\* the operations that go through retrieve
ViaRetrieve == {"retrieve", "generate_answer"}

\* gear_triples.json: None when the file does not exist, else its list
GearFiles == {None, Some(<<>>), Some(<<[subject |-> "x", predicate |-> "p", object |-> "y"]>>)}

NoCall ==
  [pc |-> "idle", op |-> "none", top_k |-> 0, use_fusion |-> FALSE, sim |-> <<>>,
   candidate_indices |-> <<>>, texts |-> <<>>, spawned |-> 0, cause |-> "none",
   indices |-> <<>>, scores |-> <<>>, fuse |-> FALSE, fused_indices |-> <<>>,
   fused_scores |-> <<>>, results |-> <<>>]

NoWorker == [state |-> "none", returncode |-> 0, stdout |-> "none", scores |-> <<>>]

\* id mappings with keys among 0..n-1 and values among chunk_0..chunk_n-1
IdMappings(n) ==
  UNION {[d -> {ChunkKey(i) : i \in 0..(n - 1)}] : d \in SUBSET (0..(n - 1))}

\* metadata tables over a subset of chunk_0..chunk_n-1
MetadataTables(n) ==
  {[key \in {ChunkKey(i) : i \in ks} |-> ChunkRecord(key[2])] : ks \in SUBSET (0..(n - 1))}

NothingLoaded ==
  /\ index_choice = arg_index_choice
  /\ index = NoIndex
  /\ metadata = <<>>
  /\ index_to_id = <<>>
  /\ all_chunks = <<>>

NoQueries ==
  /\ call = [q \in Clients |-> NoCall]
  /\ worker = [q \in Clients |-> NoWorker]

\* before EnhancedRAGBackendV2(embedding_dir, use_reranker, index_choice)
LoadInit ==
  /\ fs_files \in SUBSET IndexFiles
  /\ fs_nvec \in 0..MaxChunks
  /\ fs_metadata \in MetadataTables(MaxChunks)
  /\ fs_index_to_id \in IdMappings(MaxChunks)
  /\ arg_index_choice \in IndexChoices
  /\ use_reranker \in BOOLEAN
  /\ NothingLoaded
  /\ use_gear = FALSE
  /\ gear_triples = None
  /\ be_pc = "init"
  /\ clients = {}
  /\ NoQueries

\* __init__: self._load_indices()
ConstructLoadIndices ==
  /\ be_pc = "init"
  /\ LET r == LoadIndices(fs_files, fs_nvec, arg_index_choice)
     IN /\ index_choice' = r.index_choice
        /\ index' = r.index
        /\ be_pc' = IF r.ok THEN "indices" ELSE "error"
  /\ UNCHANGED <<nonBackendVars, fsVars, use_reranker, metadata, index_to_id, all_chunks,
                 use_gear, gear_triples, queryVars>>

\* __init__: self._load_metadata(), after which the backend serves
ConstructLoadMetadata ==
  /\ be_pc = "indices"
  /\ LET r == LoadMetadata(fs_metadata, fs_index_to_id)
     IN /\ metadata' = fs_metadata
        /\ index_to_id' = IF r.ok THEN fs_index_to_id ELSE index_to_id
        /\ all_chunks' = r.all_chunks
        /\ be_pc' = IF r.ok THEN "loaded" ELSE "error"
  /\ UNCHANGED <<nonBackendVars, fsVars, use_reranker, index_choice, index,
                 use_gear, gear_triples, queryVars>>

LoadNext == ConstructLoadIndices \/ ConstructLoadMetadata


\* a constructed backend: three-index artifacts with any vector count and
\* the metadata of any number of chunks, loaded by the constructor
ServeInit ==
  /\ fs_files = Variants
  /\ fs_nvec \in 0..MaxChunks
  /\ \E m \in 0..MaxChunks :
       /\ fs_metadata = BuiltMetadata(m)
       /\ fs_index_to_id = BuiltIndexToId(m)
  /\ arg_index_choice = "prefix"
  /\ use_reranker \in BOOLEAN
  /\ index_choice = LoadIndices(fs_files, fs_nvec, arg_index_choice).index_choice
  /\ index = LoadIndices(fs_files, fs_nvec, arg_index_choice).index
  /\ metadata = fs_metadata
  /\ index_to_id = fs_index_to_id
  /\ all_chunks = LoadMetadata(fs_metadata, fs_index_to_id).all_chunks
  /\ \E use_gear_arg \in BOOLEAN, file \in GearFiles :
       /\ use_gear = LoadGearTriples(use_gear_arg, file).use_gear
       /\ gear_triples = LoadGearTriples(use_gear_arg, file).gear_triples
  /\ be_pc = "loaded"
  /\ clients = {"q1"}
  /\ NoQueries

\* a backend constructed over the artifacts of a one-chunk corpus, shared by
\* all clients
ConcurrentInit ==
  /\ fs_files = Variants
  /\ fs_nvec = 1
  /\ fs_metadata = BuiltMetadata(1)
  /\ fs_index_to_id = BuiltIndexToId(1)
  /\ arg_index_choice = "prefix"
  /\ use_reranker \in BOOLEAN
  /\ index_choice = LoadIndices(fs_files, fs_nvec, arg_index_choice).index_choice
  /\ index = LoadIndices(fs_files, fs_nvec, arg_index_choice).index
  /\ metadata = fs_metadata
  /\ index_to_id = fs_index_to_id
  /\ all_chunks = LoadMetadata(fs_metadata, fs_index_to_id).all_chunks
  /\ \E use_gear_arg \in BOOLEAN, file \in GearFiles :
       /\ use_gear = LoadGearTriples(use_gear_arg, file).use_gear
       /\ gear_triples = LoadGearTriples(use_gear_arg, file).gear_triples
  /\ be_pc = "loaded"
  /\ clients = Clients
  /\ NoQueries

SetCall(q, c) == call' = [call EXCEPT ![q] = c]

\* what the clients ask: the first client calls any operation with any
\* top_k on any query, the second one keeps reranking the one result of
\* one query
OpsOf(q) == IF q = "q1" THEN Ops ELSE {"retrieve_with_reranking"}
TopKsOf(q) == IF q = "q1" THEN 1..MaxTopK ELSE {1}
SimsOf(q, ntotal) ==
  IF q = "q1" THEN [0..(ntotal - 1) -> SimValues] ELSE {[i \in 0..(ntotal - 1) |-> 1]}

\* the call goes through retrieve_with_gear_fusion: it is that operation, or
\* retrieve with "use_fusion and self.use_gear"
ViaFusion(op, use_fusion) ==
  op = "retrieve_with_gear_fusion" \/ (op \in ViaRetrieve /\ use_fusion /\ use_gear)

\* the call goes through retrieve_with_reranking
ViaReranking(op, use_fusion) ==
  \/ op = "retrieve_with_reranking"
  \/ ViaFusion(op, use_fusion)
  \/ (op \in ViaRetrieve /\ use_reranker)

\* what the caller of retrieve_with_gear_fusion, retrieve_with_reranking or
\* retrieve_dense does with the ranking: retrieve goes on to build its
\* result records, the other operations return
AfterFusion(c) == [c EXCEPT !.pc = IF c.op \in ViaRetrieve THEN "build" ELSE "returned"]

\* what the caller of retrieve_with_reranking does with the ranking:
\* retrieve_with_gear_fusion goes on to fuse it unless it only passes it on
AfterRanking(q, c) == IF c.fuse THEN [c EXCEPT !.pc = "fuse"] ELSE AfterFusion(c)

\* a client calls one of the query operations; the dense search of the call is run
StartCall(q) ==
  /\ be_pc = "loaded"
  /\ q \in clients
  /\ call[q].pc = "idle"
  /\ \E op \in OpsOf(q), top_k \in TopKsOf(q), use_fusion \in BOOLEAN,
        sim \in SimsOf(q, index.ntotal) :
       LET rerank == ViaReranking(op, use_fusion)
           k == IF rerank THEN CandidateK(top_k) ELSE top_k
           found == FaissSearch(index.ntotal, sim, k)
           c == [NoCall EXCEPT !.op = op, !.top_k = top_k, !.sim = sim,
                               !.use_fusion = use_fusion /\ op \in ViaRetrieve,
                               !.candidate_indices = found,
                               \* "if not self.use_gear or not self.gear_triples or not RRF_AVAILABLE"
                               !.fuse = /\ ViaFusion(op, use_fusion)
                                        /\ use_gear
                                        /\ ~NoTriples(gear_triples)]
       IN IF ~rerank
          THEN \* retrieve: "indices = self.retrieve_dense(query, top_k)"
               SetCall(q, AfterRanking(q, [c EXCEPT !.indices = found,
                    !.scores = [j \in 1..Len(found) |-> PlaceholderScore]]))
          ELSE IF ~use_reranker
          THEN SetCall(q, AfterRanking(q, [c EXCEPT !.cause = "disabled",
                    !.indices = Fallback(found, top_k).indices,
                    !.scores = Fallback(found, top_k).scores]))
          ELSE SetCall(q, [c EXCEPT !.pc = "prepare"])
  /\ UNCHANGED <<nonBackendVars, fsVars, loadedVars, be_pc, clients, worker>>

\* step 2 of retrieve_with_reranking: chunks_data from self.all_chunks[idx]
PrepareInput(q) ==
  /\ call[q].pc = "prepare"
  /\ LET c == call[q]
     IN IF \A j \in 1..Len(c.candidate_indices) : InRange(all_chunks, c.candidate_indices[j])
        THEN SetCall(q, [c EXCEPT !.pc = "spawn",
               !.texts = [j \in 1..Len(c.candidate_indices) |->
                            PyIndex(all_chunks, c.candidate_indices[j]).chunk_id]])
        ELSE SetCall(q, [c EXCEPT !.pc = "raised"])
  /\ UNCHANGED <<nonBackendVars, fsVars, loadedVars, be_pc, clients, worker>>

\* subprocess.Popen starts the worker
Spawn(q) ==
  /\ call[q].pc = "spawn"
  /\ SetCall(q, [call[q] EXCEPT !.pc = "communicate", !.spawned = @ + 1])
  /\ worker' = [worker EXCEPT ![q] = [NoWorker EXCEPT !.state = "running"]]
  /\ UNCHANGED <<nonBackendVars, fsVars, loadedVars, be_pc, clients>>

\* subprocess.Popen raises (the interpreter cannot be started)
SpawnFails(q) ==
  /\ call[q].pc = "spawn"
  /\ LET c == call[q]
     IN SetCall(q, AfterRanking(q, [c EXCEPT !.cause = "spawn",
              !.indices = Fallback(c.candidate_indices, c.top_k).indices,
              !.scores = Fallback(c.candidate_indices, c.top_k).scores]))
  /\ UNCHANGED <<nonBackendVars, fsVars, loadedVars, be_pc, clients, worker>>

\* the worker process ends: it printed its scores, an error object or
\* something else, and exited with some code
WorkerExit(q) ==
  /\ worker[q].state = "running"
  /\ \E rc \in ExitCodes, out \in Stdouts,
        score_of \in [Range(call[q].texts) -> ScoreValues] :
       worker' = [worker EXCEPT ![q] =
         [state |-> "exited", returncode |-> rc, stdout |-> out,
          scores |-> IF out = "scores" THEN WorkerScores(call[q].texts, score_of) ELSE <<>>]]
  /\ UNCHANGED <<nonBackendVars, fsVars, loadedVars, be_pc, clients, call>>

\* the worker process neither answers nor exits
WorkerHang(q) ==
  /\ worker[q].state = "running"
  /\ worker' = [worker EXCEPT ![q].state = "hung"]
  /\ UNCHANGED <<nonBackendVars, fsVars, loadedVars, be_pc, clients, call>>

\* process.communicate() returns once the worker has exited; the reply is
\* checked, and the candidates are reranked or the dense order is returned
Communicate(q) ==
  /\ call[q].pc = "communicate"
  /\ CommunicateReturns(worker[q].state)
  /\ \E cause \in {ReplyCause(worker[q].returncode, worker[q].stdout)} :
       \E r \in {IF cause = "none"
                 THEN Reranked(call[q].candidate_indices, worker[q].scores, call[q].top_k)
                 ELSE Fallback(call[q].candidate_indices, call[q].top_k)} :
          SetCall(q, AfterRanking(q, [call[q] EXCEPT
                       !.cause = IF cause = "none" THEN "reranked" ELSE cause,
                       !.indices = r.indices, !.scores = r.scores]))
  /\ worker' = [worker EXCEPT ![q].state = IF @ = "exited" THEN "reaped" ELSE @]
  /\ UNCHANGED <<nonBackendVars, fsVars, loadedVars, be_pc, clients>>

\* "indices, scores = ..." of retrieve: the fused ranking of a call that
\* fused, else the ranking of its reranking call or of its dense search
Ranking(c) ==
  IF c.fuse THEN [indices |-> c.fused_indices, scores |-> c.fused_scores]
  ELSE [indices |-> c.indices, scores |-> c.scores]

\* retrieve_with_gear_fusion: the ranking of its reranking call, its
\* dense_indices and dense_scores, is fused with itself
Fuse(q) ==
  /\ call[q].pc = "fuse"
  /\ \E r \in {GearFused(call[q].indices, call[q].scores, call[q].top_k)} :
       SetCall(q, AfterFusion([call[q] EXCEPT !.fused_indices = r.indices,
                                              !.fused_scores = r.scores]))
  /\ UNCHANGED <<nonBackendVars, fsVars, loadedVars, be_pc, clients, worker>>

\* retrieve: a copy of self.all_chunks[idx] with score and retrieval_index
\* for every (idx, score)
BuildResults(q) ==
  /\ call[q].pc = "build"
  /\ LET c == call[q]
         ranking == Ranking(c)
         n == Min(Len(ranking.indices), Len(ranking.scores))
     IN IF \A j \in 1..n : InRange(all_chunks, ranking.indices[j])
        THEN \E built \in {BuildFrom(all_chunks, ranking.indices, ranking.scores, 1, <<>>)} :
               /\ SetCall(q, [c EXCEPT !.results = built.results,
                      !.pc = IF c.op = "generate_answer" THEN "answer" ELSE "returned"])
               /\ all_chunks' = built.all_chunks
        ELSE /\ SetCall(q, [c EXCEPT !.pc = "raised"])
             /\ UNCHANGED all_chunks
  /\ UNCHANGED <<nonBackendVars, fsVars, use_reranker, index_choice, index, metadata,
                 index_to_id, use_gear, gear_triples, be_pc, clients, worker>>

\* generate_answer: the answer is written from the results of retrieve,
\* which are handed back as its sources
Answer(q) ==
  /\ call[q].pc = "answer"
  /\ SetCall(q, [call[q] EXCEPT !.pc = "returned"])
  /\ UNCHANGED <<nonBackendVars, fsVars, loadedVars, be_pc, clients, worker>>

\* the caller has its result (or its exception); the client is free again
Finish(q) ==
  /\ call[q].pc \in {"returned", "raised"}
  /\ SetCall(q, NoCall)
  /\ worker' = [worker EXCEPT ![q] = NoWorker]
  /\ UNCHANGED <<nonBackendVars, fsVars, loadedVars, be_pc, clients>>

ClientStep(q) ==
  \/ StartCall(q)
  \/ PrepareInput(q)
  \/ Spawn(q)
  \/ SpawnFails(q)
  \/ Communicate(q)
  \/ Fuse(q)
  \/ BuildResults(q)
  \/ Answer(q)
  \/ Finish(q)

WorkerStep(q) == WorkerExit(q) \/ WorkerHang(q)

ServeNext == \E q \in Clients : ClientStep(q) \/ WorkerStep(q)


\* no backend in this run
BackendIdle ==
  /\ fs_files = {}
  /\ fs_nvec = 0
  /\ fs_metadata = <<>>
  /\ fs_index_to_id = <<>>
  /\ arg_index_choice = "prefix"
  /\ use_reranker = FALSE
  /\ NothingLoaded
  /\ use_gear = FALSE
  /\ gear_triples = None
  /\ be_pc = "off"
  /\ clients = {}
  /\ NoQueries

\* =================================================================
\*  rrf_fuse: state machine
\* =================================================================
DocIds == {"a", "b", "c"}
KArgs == {None, Some(1)}

RECURSIVE ListsOfLen(_)
ListsOfLen(n) ==
  IF n = 0 THEN {<<>>}
  ELSE {Append(l, d) : l \in ListsOfLen(n - 1), d \in DocIds}

RankLists == UNION {ListsOfLen(n) : n \in 0..MaxListLen}

\* the rankings several rankers give of the same two documents: no id twice
PairIds == {"a", "b"}
PairRankings ==
  {l \in RankLists : Range(l) \subseteq PairIds /\ Cardinality(Range(l)) = Len(l)}

\* the k of the call: the default when the caller gives none
K == IF k_arg = None THEN DefaultK ELSE k_arg[1]

RrfInit ==
  /\ rank_lists \in UNION ({[1..n -> RankLists] : n \in 0..MaxLists}
                            \cup {[1..n -> PairRankings] : n \in 0..MaxRankers})
  /\ k_arg \in KArgs
  /\ scores = <<>>
  /\ fused_list = <<>>
  /\ rrf_pc = "call"

\* the accumulation loops
RrfAccumulate ==
  /\ rrf_pc = "call"
  /\ scores' = AccumulateAll(rank_lists, 1, K, <<>>)
  /\ rrf_pc' = "scored"
  /\ UNCHANGED <<nonRrfVars, rank_lists, k_arg, fused_list>>

\* the sort and the projection to ids
RrfSort ==
  /\ rrf_pc = "scored"
  /\ LET fused == RrfSorted(scores)
     IN fused_list' = [j \in 1..Len(fused) |-> fused[j][1]]
  /\ rrf_pc' = "done"
  /\ UNCHANGED <<nonRrfVars, rank_lists, k_arg, scores>>

RrfNext == RrfAccumulate \/ RrfSort

\* no rrf_fuse call in this run
RrfIdle ==
  /\ rank_lists = <<>>
  /\ k_arg = None
  /\ scores = <<>>
  /\ fused_list = <<>>
  /\ rrf_pc = "idle"

\* =================================================================
\*  diverse_triple_beam_search: state machine
\* =================================================================
\* three triples in a row: the middle one is a neighbour of both ends, the
\* ends are no neighbours of each other
TripleUniverse == {<<"x", "p", "y">>, <<"y", "p", "z">>, <<"z", "p", "w">>}

TripleLists(n) == UNION {[1..m -> TripleUniverse] : m \in 0..n}

\* the similarities of the three triples, in the order x-y, y-z, z-w
Similar(a, b, c) ==
  [t \in TripleUniverse |->
     IF t[1] = "x" THEN <<a, 1>> ELSE IF t[1] = "y" THEN <<b, 1>> ELSE <<c, 1>>]

ScoreTables == {Similar(1, 0, -1), Similar(0, 0, 0), Similar(-1, -1, 0), Similar(0, 1, 1)}

Scorers == {None} \cup {Some(t) : t \in ScoreTables}

\* the gammas 0.0 and math.log(2)
Gammas == {"0.0", "log(2)"}

BeamInit ==
  /\ T_q \in TripleLists(MaxSeeds)
  /\ all_triples \in TripleLists(MaxTriples)
  /\ beam_size \in 1..MaxBeam
  /\ max_length \in 0..MaxLength
  /\ gamma \in Gammas
  /\ scorer \in Scorers
  /\ beams = <<>>
  /\ candidates = <<>>
  /\ expansions = 0
  /\ paths = <<>>
  /\ bm_pc = "call"

\* model.encode of the first statement with no global named model
BeamNameError ==
  /\ bm_pc = "call"
  /\ scorer = None
  /\ bm_pc' = "raised"
  /\ UNCHANGED <<nonBeamVars, T_q, all_triples, beam_size, max_length, gamma, scorer,
                 beams, candidates, expansions, paths>>

\* the seeds scored, sorted and cut to beam_size
BeamSeed ==
  /\ bm_pc = "call"
  /\ scorer /= None
  /\ beams' = Take(SortedByScore([i \in 1..Len(T_q) |-> <<scorer[1][T_q[i]], <<T_q[i]>>>>]),
                   beam_size)
  /\ bm_pc' = "loop"
  /\ UNCHANGED <<nonBeamVars, T_q, all_triples, beam_size, max_length, gamma, scorer,
                 candidates, expansions, paths>>

\* one iteration of for _ in range(1, max_length)
BeamExpand ==
  /\ bm_pc = "loop"
  /\ expansions + 1 < max_length
  /\ candidates' = Candidates(beams, 1, all_triples, scorer[1])
  /\ \E sorted \in {SortedByScore(candidates')} :
       \E penalized \in {PenalizedList(sorted, gamma)} :
         beams' = Take(SortedByScore(penalized), beam_size)
  /\ expansions' = expansions + 1
  /\ UNCHANGED <<nonBeamVars, T_q, all_triples, beam_size, max_length, gamma, scorer,
                 paths, bm_pc>>

\* return [path for _, path in beams]
BeamReturn ==
  /\ bm_pc = "loop"
  /\ expansions + 1 >= max_length
  /\ paths' = [j \in 1..Len(beams) |-> beams[j][2]]
  /\ bm_pc' = "done"
  /\ UNCHANGED <<nonBeamVars, T_q, all_triples, beam_size, max_length, gamma, scorer,
                 beams, candidates, expansions>>

BeamNext == BeamNameError \/ BeamSeed \/ BeamExpand \/ BeamReturn

\* no diverse_triple_beam_search call in this run
BeamIdle ==
  /\ T_q = <<>>
  /\ all_triples = <<>>
  /\ beam_size = 1
  /\ max_length = 0
  /\ gamma = "0.0"
  /\ scorer = None
  /\ beams = <<>>
  /\ candidates = <<>>
  /\ expansions = 0
  /\ paths = <<>>
  /\ bm_pc = "idle"

\* =================================================================
\*  IndexBuilderV2.build: triples, indices, artifacts
\* =================================================================
TripleKeys == {"subject", "predicate", "object"}

\* "s = t.get(key)" and "if s": the key is there and its value is not empty
Present(t, key) == key \in DOMAIN t.fields /\ t.fields[key] /= ""

\* "isinstance(t, dict)" and "if s and p and o"
WellFormed(t) == t.is_dict /\ \A key \in TripleKeys : Present(t, key)

\* the filter loop of extract_triples_from_text over a JSON list
CleanTriples(items) ==
  LET kept == SelectSeq(items, WellFormed)
  IN [j \in 1..Len(kept) |->
        [subject |-> kept[j].fields["subject"],
         predicate |-> kept[j].fields["predicate"],
         object |-> kept[j].fields["object"]]]

\* the try block of extract_triples_from_text: a reply that is no JSON or
\* no JSON list gives []
ParseReply(raw) == IF raw.kind = "list" THEN CleanTriples(raw.items) ELSE <<>>

\* "triple = (subject, predicate, object, i)" for every triple of chunk i
WithChunkId(triples_list, i) ==
  [j \in 1..Len(triples_list) |->
     <<triples_list[j].subject, triples_list[j].predicate, triples_list[j].object, i>>]

\* the text of a chunk as prepare_three_text_variants hands it to the
\* encoder of a variant: the text, the text with its keywords, the text
\* behind its summary
TextVariant(variant, chunk) ==
  IF variant = "content" THEN chunk.text ELSE <<variant, chunk.text>>

\* embedding_model.encode and normalize_L2: one vector per text, in order
Encode(texts) == [j \in 1..Len(texts) |-> <<"vector", texts[j]>>]

\* mutant of SavedChunk: the chunk id counts from one
SavedChunkOneBased(chunk, i, vectors) ==
  [text |-> chunk.text, chunk_id |-> i + 1,
   embedding_content |-> vectors["content"][i + 1],
   embedding_tfidf |-> vectors["tfidf"][i + 1],
   embedding_prefix |-> vectors["prefix"][i + 1]]

\* the body of the loop of save_three_indices on chunk i: "chunk["chunk_id"] = i"
\* and the three embeddings of row i
SavedChunk(chunk, i, vectors) ==
  [text |-> chunk.text, chunk_id |-> i,
   embedding_content |-> vectors["content"][i + 1],
   embedding_tfidf |-> vectors["tfidf"][i + 1],
   embedding_prefix |-> vectors["prefix"][i + 1]]

\* dict[key] = value
DictSet(dict, key, value) ==
  [x \in DOMAIN dict \cup {key} |-> IF x = key THEN value ELSE dict[x]]

\* --- inputs of the build
ChunkTexts == {"a", "b"}
NewChunk(text) == [text |-> text]
ChunkLists == UNION {[1..n -> {NewChunk(t) : t \in ChunkTexts}] : n \in 0..MaxBuildChunks}

FieldValues == {"", "x"}
NotADict == [is_dict |-> FALSE, fields |-> <<>>]
\* the JSON objects of a reply: a triple, or a triple with one key left out
\* or with one empty value
ReplyDicts ==
  {[is_dict |-> TRUE, fields |-> f] :
     f \in {[key \in TripleKeys |-> "x"]}
           \cup {[key \in TripleKeys \ {gone} |-> "x"] : gone \in TripleKeys}
           \cup {[key \in TripleKeys |-> IF key = empty THEN "" ELSE "x"] : empty \in TripleKeys}}
ReplyItems == ReplyDicts \cup {NotADict}
Replies ==
  {[kind |-> "not_json", items |-> <<>>], [kind |-> "object", items |-> <<>>]}
    \cup {[kind |-> "list", items |-> l] :
            l \in UNION {[1..n -> ReplyItems] : n \in 0..MaxReplyItems}}
NoReply == [kind |-> "none", items |-> <<>>]

NoArtifacts ==
  /\ build_texts = <<>>
  /\ build_indices = <<>>
  /\ build_metadata = <<>>
  /\ build_id_to_index = <<>>
  /\ build_index_to_id = <<>>
  /\ build_all_chunks = <<>>

\* IndexBuilderV2(..., openai_api_key, use_gear) and build() after steps 1 to 3
BuildInit ==
  /\ build_chunks \in ChunkLists
  /\ \E use_gear_arg \in BOOLEAN, openai_api_key \in {None, Some("key")},
        env \in {None, Some("key")} :
       \* "if use_gear and openai_api_key: os.environ[...] = openai_api_key",
       \* "elif use_gear: self.use_gear = False"
       /\ build_use_gear = (use_gear_arg /\ openai_api_key /= None)
       /\ build_env_key = IF use_gear_arg /\ openai_api_key /= None THEN openai_api_key ELSE env
  /\ build_client = None
  /\ build_i = 0
  /\ build_raw = NoReply
  /\ build_triples = <<>>
  /\ NoArtifacts
  /\ build_pc = "prepare"

\* step 4: prepare_three_text_variants
PrepareTexts ==
  /\ build_pc = "prepare"
  /\ build_texts' = [variant \in Variants |->
                       [j \in 1..Len(build_chunks) |-> TextVariant(variant, build_chunks[j])]]
  /\ build_pc' = "gear"
  /\ UNCHANGED <<nonBuildVars, build_chunks, build_use_gear, build_env_key, build_client,
                 build_i, build_raw, build_triples, build_indices, build_metadata,
                 build_id_to_index, build_index_to_id, build_all_chunks>>

\* the next step of extract_gear_triples once it is at chunk i
ExtractionAt(i) == IF i < Len(build_chunks) THEN "client" ELSE "embed"

\* step 5: extract_gear_triples, up to its loop
StartExtraction ==
  /\ build_pc = "gear"
  /\ build_pc' = IF build_use_gear THEN ExtractionAt(0) ELSE "embed"
  /\ UNCHANGED <<nonBuildVars, build_chunks, build_use_gear, build_env_key, build_client,
                 build_i, build_raw, build_triples, build_texts, build_indices,
                 build_metadata, build_id_to_index, build_index_to_id, build_all_chunks>>

\* extract_triples_from_text: "api_client = _get_client()"
GetClient ==
  /\ build_pc = "client"
  /\ IF build_client /= None
     THEN build_pc' = "request" /\ UNCHANGED build_client
     ELSE IF build_env_key = None
     THEN build_pc' = "extract_raised" /\ UNCHANGED build_client
     ELSE build_pc' = "request" /\ build_client' = Some(build_env_key[1])
  /\ UNCHANGED <<nonBuildVars, build_chunks, build_use_gear, build_env_key, build_i,
                 build_raw, build_triples, build_texts, build_indices, build_metadata,
                 build_id_to_index, build_index_to_id, build_all_chunks>>

\* "resp = api_client.chat.completions.create(...)" answers
CompletionReplies ==
  /\ build_pc = "request"
  /\ build_raw' \in Replies
  /\ build_pc' = "parse"
  /\ UNCHANGED <<nonBuildVars, build_chunks, build_use_gear, build_env_key, build_client,
                 build_i, build_triples, build_texts, build_indices, build_metadata,
                 build_id_to_index, build_index_to_id, build_all_chunks>>

\* "resp = api_client.chat.completions.create(...)" raises: the service
\* cannot be reached, or it refuses the key or the request
CompletionFails ==
  /\ build_pc = "request"
  /\ build_pc' = "extract_raised"
  /\ UNCHANGED <<nonBuildVars, build_chunks, build_use_gear, build_env_key, build_client,
                 build_i, build_raw, build_triples, build_texts, build_indices,
                 build_metadata, build_id_to_index, build_index_to_id, build_all_chunks>>

\* the reply is parsed and filtered, and extract_gear_triples appends the
\* triples of chunk i
AppendTriples ==
  /\ build_pc = "parse"
  /\ build_triples' = build_triples \o WithChunkId(ParseReply(build_raw), build_i)
  /\ build_i' = build_i + 1
  /\ build_raw' = NoReply
  /\ build_pc' = ExtractionAt(build_i + 1)
  /\ UNCHANGED <<nonBuildVars, build_chunks, build_use_gear, build_env_key, build_client,
                 build_texts, build_indices, build_metadata, build_id_to_index,
                 build_index_to_id, build_all_chunks>>

\* step 6: build_three_faiss_indices; step 7 writes the three index files
BuildIndices ==
  /\ build_pc = "embed"
  /\ build_indices' = [variant \in Variants |-> Encode(build_texts[variant])]
  /\ build_i' = 0
  /\ build_pc' = "save"
  /\ UNCHANGED <<nonBuildVars, build_chunks, build_use_gear, build_env_key, build_client,
                 build_raw, build_triples, build_texts, build_metadata, build_id_to_index,
                 build_index_to_id, build_all_chunks>>

\* step 6 on no chunk at all: the encoder gives an array of no rows, whose
\* missing second dimension is an error
BuildIndicesFails ==
  /\ build_pc = "embed"
  /\ Len(build_chunks) = 0
  /\ build_pc' = "embed_raised"
  /\ UNCHANGED <<nonBuildVars, build_chunks, build_use_gear, build_env_key, build_client,
                 build_i, build_raw, build_triples, build_texts, build_indices,
                 build_metadata, build_id_to_index, build_index_to_id, build_all_chunks>>

\* save_three_indices: one turn of "for i, chunk in enumerate(chunks)"
SaveChunk ==
  /\ build_pc = "save"
  /\ build_i < Len(build_chunks)
  /\ \E chunk \in {SavedChunk(build_chunks[build_i + 1], build_i, build_indices)} :
       /\ build_chunks' = [build_chunks EXCEPT ![build_i + 1] = chunk]
       /\ build_metadata' = DictSet(build_metadata, ChunkKey(build_i), chunk)
  /\ build_id_to_index' = DictSet(build_id_to_index, ChunkKey(build_i), build_i)
  /\ build_index_to_id' = DictSet(build_index_to_id, build_i, ChunkKey(build_i))
  /\ build_i' = build_i + 1
  /\ UNCHANGED <<nonBuildVars, build_use_gear, build_env_key, build_client, build_raw,
                 build_triples, build_texts, build_indices, build_all_chunks, build_pc>>

\* save_three_indices: metadata.json and id_mapping.pkl are written
SaveFiles ==
  /\ build_pc = "save"
  /\ build_i = Len(build_chunks)
  /\ build_pc' = "saved"
  /\ UNCHANGED <<nonBuildVars, build_chunks, build_use_gear, build_env_key, build_client,
                 build_i, build_raw, build_triples, build_texts, build_indices,
                 build_metadata, build_id_to_index, build_index_to_id, build_all_chunks>>

\* EnhancedRAGBackendV2(embedding_dir=output_dir): _load_metadata
LoadArtifacts ==
  /\ build_pc = "saved"
  /\ \E r \in {LoadMetadata(build_metadata, build_index_to_id)} :
       /\ build_all_chunks' = r.all_chunks
       /\ build_pc' = IF r.ok THEN "loaded" ELSE "load_raised"
  /\ UNCHANGED <<nonBuildVars, build_chunks, build_use_gear, build_env_key, build_client,
                 build_i, build_raw, build_triples, build_texts, build_indices,
                 build_metadata, build_id_to_index, build_index_to_id>>

BuildNext ==
  \/ PrepareTexts
  \/ StartExtraction
  \/ GetClient
  \/ CompletionReplies
  \/ CompletionFails
  \/ AppendTriples
  \/ BuildIndices
  \/ BuildIndicesFails
  \/ SaveChunk
  \/ SaveFiles
  \/ LoadArtifacts

\* extract_gear_triples(chunks) called on its own, on a builder with
\* use_gear set, in a process with or without the key in its environment
\* and with or without a client left by an earlier call
ExtractInit ==
  /\ build_chunks \in ChunkLists
  /\ build_use_gear = TRUE
  /\ build_env_key \in {None, Some("key")}
  /\ build_client \in {None, Some("key")}
  /\ build_i = 0
  /\ build_raw = NoReply
  /\ build_triples = <<>>
  /\ NoArtifacts
  /\ build_pc = "gear"

\* extract_gear_triples and the calls of extract_triples_from_text it makes
ExtractNext ==
  \/ StartExtraction
  \/ GetClient
  \/ CompletionReplies
  \/ CompletionFails
  \/ AppendTriples

\* no build in this run
BuildIdle ==
  /\ build_chunks = <<>>
  /\ build_use_gear = FALSE
  /\ build_env_key = None
  /\ build_client = None
  /\ build_i = 0
  /\ build_raw = NoReply
  /\ build_triples = <<>>
  /\ NoArtifacts
  /\ build_pc = "off"

\* =================================================================
\*  chunk_blocks on a block of the size of the __main__ sample
\* =================================================================
\* chunk_blocks("test_doc.pdf", sample_blocks, max_size=100, overlap=20)
SampleMaxSize == 100
SampleOverlap == 20

SampleHeading == <<"P", "o", "l", "i", "c", "y">>

\* the lengths of the three paragraphs
SampleLengths == <<40, 60, 50>>

\* what a paragraph is made of: one unbroken word, words of five letters,
\* sentences of nineteen characters, lines of nine characters
Fillings == {"word", "words", "sentences", "lines"}

Paragraph(n, filling) ==
  [i \in 1..n |->
     IF filling = "words" /\ i % 6 = 0 /\ i < n THEN " "
     ELSE IF filling = "sentences" /\ i % 20 = 19 THEN "."
     ELSE IF filling = "sentences" /\ i % 20 = 0 /\ i < n THEN " "
     ELSE IF filling = "lines" /\ i % 10 = 0 /\ i < n THEN "\n"
     ELSE "a"]

SampleInit ==
  /\ max_size = SampleMaxSize
  /\ overlap = SampleOverlap
  /\ input_left = 0
  /\ block_idx = -1
  /\ block_text = <<>>
  /\ para_spans = <<>>
  /\ pos = 0
  /\ chunks = <<>>
  /\ iters = 0
  /\ ck_pc = "for"

\* the one block of the call: its text and paragraph spans are built
SampleBlock ==
  /\ ck_pc = "for"
  /\ block_idx = -1
  /\ \E fill \in [1..Len(SampleLengths) -> Fillings] :
       LET paragraphs == [i \in 1..Len(SampleLengths) |-> Paragraph(SampleLengths[i], fill[i])]
           built == BuildBlock(Some(SampleHeading), paragraphs)
       IN /\ block_idx' = block_idx + 1
          /\ block_text' = built.text
          /\ para_spans' = built.para_spans
          /\ pos' = 0
          /\ iters' = 0
          /\ ck_pc' = IF built.text = <<>> THEN "for" ELSE "while"
  /\ UNCHANGED <<max_size, overlap, input_left, chunks>>
  /\ UNCHANGED nonChunkVars

SampleNext == SampleBlock \/ WhileStep

\* =================================================================
\*  specifications
\* =================================================================
InitChunk == ChunkInit /\ BackendIdle /\ RrfIdle /\ BeamIdle /\ BuildIdle
SpecChunk == InitChunk /\ [][ChunkNext]_vars

InitLoad == LoadInit /\ ChunkIdle /\ RrfIdle /\ BeamIdle /\ BuildIdle
SpecLoad == InitLoad /\ [][LoadNext]_vars

InitBackend == ServeInit /\ ChunkIdle /\ RrfIdle /\ BeamIdle /\ BuildIdle
SpecBackend == InitBackend /\ [][ServeNext]_vars

\* the serving process keeps running its calls, and a started worker runs on
\* until it has ended or is hung; a hung worker is owed no end
SpecBackendFair ==
  SpecBackend /\ \A q \in Clients : WF_vars(ClientStep(q)) /\ WF_vars(WorkerStep(q))

InitConcurrent == ConcurrentInit /\ ChunkIdle /\ RrfIdle /\ BeamIdle /\ BuildIdle
SpecConcurrent == InitConcurrent /\ [][ServeNext]_vars

InitBuild == BuildInit /\ ChunkIdle /\ BackendIdle /\ RrfIdle /\ BeamIdle
SpecBuild == InitBuild /\ [][BuildNext]_vars

InitExtract == ExtractInit /\ ChunkIdle /\ BackendIdle /\ RrfIdle /\ BeamIdle
SpecExtract == InitExtract /\ [][ExtractNext]_vars

InitRrf == RrfInit /\ ChunkIdle /\ BackendIdle /\ BeamIdle /\ BuildIdle
SpecRrf == InitRrf /\ [][RrfNext]_vars

InitBeam == BeamInit /\ ChunkIdle /\ BackendIdle /\ RrfIdle /\ BuildIdle
SpecBeam == InitBeam /\ [][BeamNext]_vars

InitSample == SampleInit /\ BackendIdle /\ RrfIdle /\ BeamIdle /\ BuildIdle
SpecSample == InitSample /\ [][SampleNext]_vars

\* ----------------------------------------------------- chunker claims
\* the chunks emitted for the current block, in emission order
RECURSIVE ChunksOfBlock(_, _, _)
ChunksOfBlock(cs, i, b) ==
  IF i > Len(cs) THEN <<>>
  ELSE (IF cs[i].block_index = b THEN <<cs[i]>> ELSE <<>>) \o ChunksOfBlock(cs, i + 1, b)

CurrentChunks == ChunksOfBlock(chunks, 1, block_idx)

RECURSIVE ConcatTexts(_, _)
ConcatTexts(cs, i) == IF i > Len(cs) THEN <<>> ELSE cs[i].text \o ConcatTexts(cs, i + 1)

RemoveWhitespace(t) == SelectSeq(t, LAMBDA c : c \notin Whitespace)

\* the sliding loop of the current block has run to its end
BlockFinished == ck_pc = "for" /\ block_text /= <<>>

Covered(i) ==
  \E k \in 1..Len(CurrentChunks) :
     CurrentChunks[k].char_span[1] <= i /\ i < CurrentChunks[k].char_span[2]

\* C1: chunk_blocks loses no block text: once a block is finished, every
\* non-whitespace position of its text lies in the char_span of one of its
\* chunks, and with overlap = 0 the chunk texts concatenated in emission order
\* are the block text up to whitespace.
C1_NoTextLost ==
  BlockFinished =>
    /\ \A i \in 0..(Len(block_text) - 1) :
          block_text[i + 1] \notin Whitespace => Covered(i)
    /\ overlap = 0 =>
          RemoveWhitespace(ConcatTexts(CurrentChunks, 1)) = RemoveWhitespace(block_text)

\* C2: every iteration of the sliding loop (chunk emitted or empty window
\* skipped) moves the cursor strictly forward, so a block of n characters is
\* finished within n iterations, whatever max_size >= 1 and overlap >= 0 are.
C2_CursorAdvances ==
  [][ck_pc = "while" => (pos' > pos /\ iters' <= Len(block_text))]_vars

\* a block was finished with overlap >= max_size, after at least two
\* iterations one of which skipped an empty window
C2_Witness ==
  /\ BlockFinished
  /\ overlap >= max_size
  /\ iters >= 2
  /\ Len(CurrentChunks) < iters
  /\ Len(CurrentChunks) >= 1

\* C3: every emitted chunk has a non-empty text and a span with
\* 0 <= start < end, and end <= len(block_text) of the block it was cut from.
C3_SpanValid ==
  \A k \in 1..Len(chunks) :
     /\ chunks[k].text /= <<>>
     /\ 0 <= chunks[k].char_span[1]
     /\ chunks[k].char_span[1] < chunks[k].char_span[2]
     /\ chunks[k].block_index = block_idx => chunks[k].char_span[2] <= Len(block_text)

\* the second block of a call yielded two chunks, the last ending at the
\* end of the block text
C3_Witness ==
  /\ BlockFinished
  /\ block_idx = 1
  /\ Len(CurrentChunks) >= 2
  /\ Len(chunks) > Len(CurrentChunks)
  /\ CurrentChunks[Len(CurrentChunks)].char_span[2] = Len(block_text)
  /\ CurrentChunks[Len(CurrentChunks)].char_span[1] > 0

\* ----------------------------------------------------- backend claims
\* where a call is once retrieve_with_reranking has handed back its ranking
HandedBack == {"fuse", "build", "answer", "returned"}

\* the worker of q's call failed: it could not be started, or it ended with a
\* non-zero exit code or with a stdout that is no JSON object holding scores
WorkerFailed(q) ==
  \/ call[q].cause = "spawn"
  \/ /\ worker[q].state = "reaped"
     /\ (worker[q].returncode /= 0 \/ worker[q].stdout /= "scores")

\* C4: with the reranker enabled, a worker failure raises nothing: the call
\* hands back the first top_k dense candidates in dense order, each with the
\* placeholder score 1.0, as many scores as indices.
C4_FallbackOnWorkerFailure ==
  \A q \in Clients :
     WorkerFailed(q) =>
       /\ call[q].pc \in HandedBack
       /\ call[q].indices = Take(call[q].candidate_indices, call[q].top_k)
       /\ Len(call[q].scores) = Len(call[q].indices)
       /\ \A j \in 1..Len(call[q].scores) : call[q].scores[j] = 1

\* a worker that printed scores but exited with a non-zero code: the call
\* returned two candidates in a dense order that is not the index order
C4_Witness ==
  \E q \in Clients :
     /\ call[q].pc = "returned"
     /\ call[q].op = "retrieve_with_reranking"
     /\ worker[q].state = "reaped"
     /\ worker[q].returncode /= 0
     /\ worker[q].stdout = "scores"
     /\ worker[q].scores[1] < worker[q].scores[2]
     /\ call[q].indices = <<1, 0>>

\* C5: a call whose worker never answers and never exits still returns
\* (every call waiting for its worker eventually hands back a result).
C5_CallReturns ==
  \A q \in Clients :
     (call[q].pc = "communicate") ~> (call[q].pc \in HandedBack)

\* C6: a constructed backend serves from the index file of the variant the
\* caller selected; an unknown index_choice or a missing file of the selected
\* variant is a load error.
C6_SelectedIndexOrError ==
  be_pc = "loaded" =>
    /\ arg_index_choice \in Variants
    /\ arg_index_choice \in fs_files
    /\ index.file = arg_index_choice

\* C7: a constructed backend has index.ntotal = len(index_to_id) =
\* len(all_chunks), and every mapped id is a metadata key; any other set of
\* artifacts is a load error.
C7_Lockstep ==
  be_pc = "loaded" =>
    /\ index.ntotal = Cardinality(DOMAIN index_to_id)
    /\ Cardinality(DOMAIN index_to_id) = Len(all_chunks)
    /\ \A i \in DOMAIN index_to_id : index_to_id[i] \in DOMAIN metadata

\* the k a call asks the index for
AskedK(c) ==
  IF ViaReranking(c.op, c.use_fusion)
  THEN CandidateK(c.top_k) ELSE c.top_k

IsChunkPosition(i) == 0 <= i /\ i < index.ntotal

\* C8: dense search gives at most k entries, each a position of an indexed
\* chunk, without duplicates, in descending similarity order, also when k
\* exceeds the number of indexed vectors; no padding entry becomes a
\* candidate or a returned result.
C8_DenseHitsAreChunks ==
  \A q \in Clients :
     LET c == call[q]
         hits == c.candidate_indices
     IN /\ Len(hits) <= AskedK(c)
        /\ \A j \in 1..Len(hits) : IsChunkPosition(hits[j])
        /\ \A i, j \in 1..Len(hits) : i < j => hits[i] /= hits[j]
        /\ \A i, j \in 1..Len(hits) :
              (i < j /\ IsChunkPosition(hits[i]) /\ IsChunkPosition(hits[j]))
                 => c.sim[hits[i]] >= c.sim[hits[j]]
        /\ \A j \in 1..Len(c.indices) : IsChunkPosition(c.indices[j])
        /\ \A j \in 1..Len(c.results) : IsChunkPosition(c.results[j].retrieval_index)

\* how many of the scored candidates go before candidate j once the worker's
\* scores w are sorted descending, equal scores in input order
SortedAhead(w, j) ==
  Cardinality({i \in 1..Len(w) : w[i] > w[j] \/ (w[i] = w[j] /\ i < j)})

\* C13: on every non-fallback return of retrieve_with_reranking every
\* candidate sent to the worker has exactly one score, score i for candidate
\* i; all of these pairs are sorted, and the returned indices and scores are
\* the first top_k of the whole sequence sorted by score descending.
C13_CutAfterSort ==
  \A q \in Clients :
     call[q].cause = "reranked" =>
       LET c == call[q]
           w == worker[q].scores
           n == Len(c.candidate_indices)
       IN /\ Len(c.texts) = n
          /\ Len(w) = n
          /\ Len(c.indices) = Min(c.top_k, n)
          /\ Len(c.scores) = Len(c.indices)
          /\ \A p \in 1..Len(c.indices) :
                \E j \in 1..n : /\ SortedAhead(w, j) = p - 1
                                /\ c.indices[p] = c.candidate_indices[j]
                                /\ c.scores[p] = w[j]
          /\ \A p \in 1..(Len(c.scores) - 1) : c.scores[p] >= c.scores[p + 1]

\* a reranked call for two results whose second result was the third dense
\* candidate, and whose first dense candidate is not returned
C13_Witness ==
  \E q \in Clients :
     /\ call[q].pc = "returned"
     /\ call[q].cause = "reranked"
     /\ call[q].top_k = 2
     /\ call[q].candidate_indices[1] = 0
     /\ call[q].candidate_indices[2] = 1
     /\ worker[q].scores[1] < worker[q].scores[3]
     /\ call[q].indices = <<1, call[q].candidate_indices[3]>>

\* ----------------------------------------------------- rrf claims
\* the k the claims speak of: 60 unless the caller gives one
ClaimedK == IF k_arg = None THEN 60 ELSE k_arg[1]

RECURSIVE Flatten(_, _)
Flatten(lists, l) == IF l > Len(lists) THEN <<>> ELSE lists[l] \o Flatten(lists, l + 1)

\* every (id, 0-based rank) of the input, first list first, each list by position
Occurrences ==
  Flatten([l \in 1..Len(rank_lists) |->
             [i \in 1..Len(rank_lists[l]) |-> <<rank_lists[l][i], i - 1>>]], 1)

RECURSIVE SumReciprocals(_, _, _, _)
SumReciprocals(doc_id, places, i, sum) ==
  IF i > Len(places) THEN sum
  ELSE SumReciprocals(doc_id, places, i + 1,
         IF places[i][1] = doc_id
         THEN FloatAdd(sum, FloatOneOver(ClaimedK + places[i][2] + 1))
         ELSE sum)

\* the float sum, over the occurrences of doc_id, of 1 / (k + rank + 1)
ExpectedScore(doc_id) ==
  CHOOSE e \in {SumReciprocals(doc_id, places, 1, FloatZero) : places \in {Occurrences}} : TRUE

InputIds == UNION {Range(rank_lists[l]) : l \in 1..Len(rank_lists)}

\* C9: rrf_fuse gives every id the sum over its occurrences of
\* 1 / (k + rank + 1), k being 60 by default, and returns the ids in
\* non-increasing order of that score.
C9_RrfScoresAndOrder ==
  rrf_pc = "done" =>
    /\ {scores[j][1] : j \in 1..Len(scores)} = InputIds
    /\ \A j \in 1..Len(scores) : scores[j][2] = ExpectedScore(scores[j][1])
    /\ \A i, j \in 1..Len(fused_list) :
          i < j => ~FloatLess(ExpectedScore(fused_list[i]), ExpectedScore(fused_list[j]))

\* "b" is second in one list and first in the other and comes out first,
\* under the default k
C9_Witness ==
  /\ rrf_pc = "done"
  /\ k_arg = None
  /\ rank_lists = << <<"a", "b">>, <<"b", "c">> >>
  /\ fused_list = <<"b", "a", "c">>

\* where doc_id is first met, scanning the first list first
FirstEncounter(doc_id) ==
  LET flat == Flatten(rank_lists, 1)
  IN CHOOSE i \in 1..Len(flat) : flat[i] = doc_id /\ \A j \in 1..(i - 1) : flat[j] /= doc_id

ScoreOf(doc_id) == (CHOOSE j \in 1..Len(scores) : scores[j][1] = doc_id)

Reverse(l) == [i \in 1..Len(l) |-> l[Len(l) + 1 - i]]

CountUpTo(doc_id, r) ==
  Cardinality({i \in 1..Len(Occurrences) :
                 Occurrences[i][1] = doc_id /\ Occurrences[i][2] <= r})

\* every occurrence of y can be matched to a distinct occurrence of x at an
\* equal or better rank: at every rank, x has at least as many occurrences at
\* that rank or better as y has
Dominates(x, y) ==
  \A r \in 0..(Len(Occurrences) + 1) : CountUpTo(x, r) >= CountUpTo(y, r)

PositionIn(list, doc_id) == CHOOSE i \in 1..Len(list) : list[i] = doc_id

\* C11: for a fixed k, an id x whose occurrences dominate those of an id y
\* gets a fused score at least that of y, and y is not output before x
\* unless their scores are equal.
C11_RrfMonotone ==
  rrf_pc = "done" =>
    \A x, y \in InputIds :
       Dominates(x, y) =>
         /\ ~FloatLess(scores[ScoreOf(x)][2], scores[ScoreOf(y)][2])
         /\ PositionIn(fused_list, y) < PositionIn(fused_list, x)
              => scores[ScoreOf(x)][2] = scores[ScoreOf(y)][2]

\* doc_id is first in exactly one list and occurs in no other list
FirstInOneListOnly(doc_id) ==
  \E l \in 1..Len(rank_lists) :
     /\ rank_lists[l] /= <<>>
     /\ rank_lists[l][1] = doc_id
     /\ \A m \in (1..Len(rank_lists)) \ {l} : doc_id \notin Range(rank_lists[m])

FirstInNoList(doc_id) ==
  \A l \in 1..Len(rank_lists) : rank_lists[l] = <<>> \/ rank_lists[l][1] /= doc_id

\* C12 as stated: an id that is first in exactly one list and absent from the
\* others scores strictly higher than any id that is first in no list.
C12_FirstBeatsNeverFirst ==
  rrf_pc = "done" =>
    \A x, y \in InputIds :
       (FirstInOneListOnly(x) /\ FirstInNoList(y))
          => FloatLess(scores[ScoreOf(y)][2], scores[ScoreOf(x)][2])

\* C12: an id that is first in exactly one list and absent from the others
\* scores strictly higher than any id that is first in no list and occurs
\* only once in the input.
C12_FirstBeatsSingleLower ==
  rrf_pc = "done" =>
    \A x, y \in InputIds :
       (FirstInOneListOnly(x) /\ FirstInNoList(y) /\ CountUpTo(y, Len(Occurrences)) = 1)
          => FloatLess(scores[ScoreOf(y)][2], scores[ScoreOf(x)][2])

\* a is first in the first list only, b is second there and nowhere else
C12_Witness ==
  /\ rrf_pc = "done"
  /\ rank_lists = << <<"a", "b">>, <<"c">> >>
  /\ FirstInOneListOnly("a")
  /\ FirstInNoList("b")
  /\ FloatLess(scores[ScoreOf("b")][2], scores[ScoreOf("a")][2])
  /\ fused_list = <<"a", "c", "b">>

\* ------------------------------------------------- beam search claims
\* the call has returned
Returned == bm_pc = "done"

NoRepeat(chain) == \A i, j \in 1..Len(chain) : i /= j => chain[i] /= chain[j]

\* C14: in every chain diverse_triple_beam_search returns no triple appears
\* twice, whatever the seeds, the triple list (repeated triples included),
\* beam_size, max_length and gamma
C14_NoRepeat == Returned => \A c \in 1..Len(paths) : NoRepeat(paths[c])

\* a returned chain of three triples whose first triple is also in all_triples,
\* where it is a neighbour of the second: the third step had to pass it over
C14_Witness ==
  /\ Returned
  /\ \E c \in 1..Len(paths) :
       /\ Len(paths[c]) = 3
       /\ paths[c][1] \in Range(all_triples)
       /\ SharesEntity(paths[c][1], paths[c][2])

\* C15: diverse_triple_beam_search returns at most beam_size chains, every chain
\* starts with one of the seed triples, and no chain is longer than max_length,
\* for every max_length the caller passes, 0 included
C15_ChainBounds ==
  Returned =>
    /\ Len(paths) <= beam_size
    /\ \A c \in 1..Len(paths) :
         /\ paths[c] /= <<>>
         /\ paths[c][1] \in Range(T_q)
         /\ Len(paths[c]) <= max_length

\* no triple of all_triples can extend the chain: none is a neighbour of its
\* last triple that the chain has not visited
CannotExtend(seq) ==
  \A t \in Range(all_triples) :
    t = seq[Len(seq)] \/ ~SharesEntity(t, seq[Len(seq)]) \/ t \in Range(seq)

\* C17: with seeds and beam_size >= 1 the call raises nothing, and an expansion
\* step at which no beam has an unvisited neighbour (all_triples may be empty)
\* keeps the chains built so far, which are then what the call returns
C17_NoNeighborsKeepsChains ==
  [][/\ (bm_pc = "call" /\ T_q /= <<>>) => bm_pc' /= "raised"
     /\ (/\ bm_pc = "loop"
         /\ expansions' = expansions + 1
         /\ \A b \in 1..Len(beams) : CannotExtend(beams[b][2]))
        => beams' = beams
     /\ (bm_pc = "loop" /\ bm_pc' = "done")
        => paths' = [b \in 1..Len(beams) |-> beams[b][2]]]_vars

\* beams holds the sorted seeds / the sorted candidates of the last iteration
Seeded == bm_pc \in {"loop", "done"} /\ expansions = 0
Expanded == bm_pc \in {"loop", "done"} /\ expansions > 0

\* two beams with the same score
TiedBeams(p, q) == p < q /\ beams[p][1] = beams[q][1]

\* the seed of beam p was met before the seed of beam q
SeedOrder(p, q) ==
  \E i, j \in 1..Len(T_q) : i < j /\ T_q[i] = beams[p][2][1] /\ T_q[j] = beams[q][2][1]

\* the candidate of beam p was appended before the candidate of beam q
EncounterOrder(p, q) ==
  \E i, j \in 1..Len(candidates) :
    i < j /\ candidates[i][2] = beams[p][2] /\ candidates[j][2] = beams[q][2]

\* the candidate of beam p stands before the candidate of beam q in the raw
\* sort: its averaged score is higher, or equal and it was appended earlier
RawOrder(p, q) ==
  \E i, j \in 1..Len(candidates) :
    /\ i /= j
    /\ candidates[i][2] = beams[p][2]
    /\ candidates[j][2] = beams[q][2]
    /\ \/ RatLess(candidates[j][1], candidates[i][1])
       \/ candidates[i][1] = candidates[j][1] /\ i < j

\* C16 as stated: beams with equal score stand in input-encounter order, after
\* the seed sort and after the penalized sort of every iteration
C16_TiesKeepEncounterOrder ==
  /\ Seeded => \A p, q \in 1..Len(beams) : TiedBeams(p, q) => SeedOrder(p, q)
  /\ Expanded => \A p, q \in 1..Len(beams) : TiedBeams(p, q) => EncounterOrder(p, q)

\* C16, amended: seeds with equal score keep seed order; candidates whose
\* penalized scores are equal keep their order of the raw sort, where encounter
\* order decides between equal averaged scores only
C16_TiesKeepRawOrder ==
  /\ Seeded => \A p, q \in 1..Len(beams) : TiedBeams(p, q) => SeedOrder(p, q)
  /\ Expanded => \A p, q \in 1..Len(beams) : TiedBeams(p, q) => RawOrder(p, q)

\* two candidates with different averaged scores tie after the penalty, and the
\* one appended later is returned first
C16_Witness ==
  /\ Returned
  /\ Expanded
  /\ \E p, q \in 1..Len(beams) :
       /\ TiedBeams(p, q)
       /\ beams[p][2] /= beams[q][2]
       /\ ~EncounterOrder(p, q)
       /\ RawOrder(p, q)

\* ------------------------------------------- chunker claims, continued
\* chunks i and i + 1 of the current block, the cursor having advanced by
\* overlap after chunk i: split_at - overlap > pos
AdvancedByOverlap(i) ==
  /\ i \in 1..(Len(CurrentChunks) - 1)
  /\ CurrentChunks[i].char_span[2] - overlap > CurrentChunks[i].char_span[1]

\* C18 as stated: after an advance by overlap the next chunk of the block
\* starts inside the chunk before it:
\* chunk[i].end - overlap <= chunk[i+1].start < chunk[i].end
C18_OverlapBound ==
  \A i \in 1..Len(CurrentChunks) :
    AdvancedByOverlap(i) =>
      /\ CurrentChunks[i].char_span[2] - overlap <= CurrentChunks[i + 1].char_span[1]
      /\ CurrentChunks[i + 1].char_span[1] < CurrentChunks[i].char_span[2]

\* C18, amended: after an advance by overlap the next chunk of the block starts
\* no earlier than chunk[i].end - overlap, and it starts before chunk[i].end
\* when overlap >= 1 and the character at chunk[i].end - overlap is no whitespace
C18_OverlapLowerBound ==
  \A i \in 1..Len(CurrentChunks) :
    AdvancedByOverlap(i) =>
      LET cursor == CurrentChunks[i].char_span[2] - overlap
      IN /\ cursor <= CurrentChunks[i + 1].char_span[1]
         /\ (overlap >= 1 /\ block_text[cursor + 1] \notin Whitespace)
              => CurrentChunks[i + 1].char_span[1] < CurrentChunks[i].char_span[2]

\* two chunks of a block, the second one starting overlap >= 1 characters
\* before the end of the first
C18_Witness ==
  \E i \in 1..Len(CurrentChunks) :
    /\ AdvancedByOverlap(i)
    /\ overlap >= 1
    /\ block_text[CurrentChunks[i].char_span[2] - overlap + 1] \notin Whitespace
    /\ CurrentChunks[i + 1].char_span[1] = CurrentChunks[i].char_span[2] - overlap

\* C19: a finished block that holds a heading and no non-empty paragraph has
\* yielded exactly one chunk, for any heading whose stripped text is no longer
\* than max_size; a block whose text is empty has yielded no chunk
C19_HeadingOnlyOneChunk ==
  /\ (BlockFinished /\ para_spans = <<>> /\ Len(block_text) <= max_size)
       => Len(CurrentChunks) = 1
  /\ (ck_pc = "for" /\ block_idx >= 0 /\ block_text = <<>>) => CurrentChunks = <<>>

\* C20: the block with heading "Policy" and paragraphs of 40, 60 and 50
\* characters, chunked with max_size=100 and overlap=20, gives 2 or 3 chunks,
\* each with a non-empty paragraph_indices, the last one ending at the end of
\* the block text, 162
C20_EndToEndExample ==
  BlockFinished =>
    /\ Len(block_text) = 162
    /\ Len(chunks) \in {2, 3}
    /\ \A c \in 1..Len(chunks) : chunks[c].paragraph_indices /= <<>>
    /\ chunks[Len(chunks)].char_span[2] = Len(block_text)

\* ------------------------------------------- rrf_fuse claims, continued
\* C30: the list rrf_fuse returns holds every id of the input lists exactly
\* once and no other id; no lists, or only empty lists, give the empty list
C30_OutputIsPermutation ==
  rrf_pc = "done" =>
    /\ Range(fused_list) = InputIds
    /\ Len(fused_list) = Cardinality(InputIds)

\* an id stands twice in one list, and another id is in the input too
C30_Witness ==
  /\ rrf_pc = "done"
  /\ Cardinality(InputIds) >= 2
  /\ \E l \in 1..Len(rank_lists) :
       \E i, j \in 1..Len(rank_lists[l]) : i < j /\ rank_lists[l][i] = rank_lists[l][j]

\* --------------------------------------- beam search claims, continued
\* the sum of the similarities the scorer gives the triples of a chain
RECURSIVE SumOfSimilarities(_, _)
SumOfSimilarities(chain, i) ==
  IF i > Len(chain) THEN <<0, 1>>
  ELSE LET a == scorer[1][chain[i]]
           b == SumOfSimilarities(chain, i + 1)
       IN Rational(a[1] * b[2] + b[1] * a[2], a[2] * b[2])

\* the arithmetic mean of the similarities of the triples of a chain
MeanSimilarity(chain) ==
  Rational(SumOfSimilarities(chain, 1)[1], SumOfSimilarities(chain, 1)[2] * Len(chain))

\* C23: at every expansion step the score an extended chain gets is the mean
\* of the similarities of all its triples, whatever penalty its prefix got at
\* earlier steps
C23_ScoreIsMean ==
  Expanded =>
    \A c \in 1..Len(candidates) : candidates[c][1] = MeanSimilarity(candidates[c][2])

\* the scorer gives no triple a negative similarity
NonNegativeScores == scorer /= None /\ \A t \in TripleUniverse : scorer[1][t][1] >= 0

PathsOf(bs) == [b \in 1..Len(bs) |-> bs[b][2]]

\* C28: with non-negative similarities the beams kept by an expansion step
\* are the first beam_size candidates of the raw averaged-score ordering, in
\* that order, for both gammas
C28_PenaltyKeepsRawOrder ==
  (Expanded /\ NonNegativeScores) =>
    PathsOf(beams) = PathsOf(Take(SortedByScore(candidates), beam_size))

\* a step with a penalty below 1, more candidates than beam_size, and a raw
\* ordering that differs from the order in which the candidates were appended
C28_Witness ==
  /\ Expanded
  /\ NonNegativeScores
  /\ gamma = "log(2)"
  /\ Len(candidates) > beam_size
  /\ beams /= <<>>
  /\ beams[1][1][1] > 0
  /\ PathsOf(beams) /= PathsOf(Take(candidates, beam_size))

\* ------------------------------------------- chunker claims, continued
\* the recorded paragraph spans that intersect [s, e)
Intersecting(s_, e_) == {i \in 1..Len(para_spans) : para_spans[i][1] < e_ /\ para_spans[i][2] > s_}

\* C24: paragraph_indices of a chunk with span [s, e) lists, in block order,
\* exactly the paragraphs whose recorded span has p_start < e and p_end > s;
\* paragraph_index is its first element, or None exactly when it is empty
C24_ParagraphIndices ==
  \A c \in 1..Len(CurrentChunks) :
    LET ch == CurrentChunks[c]
        hit == Intersecting(ch.char_span[1], ch.char_span[2])
        idx == ch.paragraph_indices
    IN /\ Len(idx) = Cardinality(hit)
       /\ {idx[i] : i \in 1..Len(idx)} = {para_spans[i][3] : i \in hit}
       /\ \A i, j \in 1..Len(idx) : i < j => idx[i] < idx[j]
       /\ ch.paragraph_index = (IF idx = <<>> THEN None ELSE Some(idx[1]))

\* one chunk of the block touches no paragraph, another one touches the
\* paragraph of index 1, the paragraph of index 0 being empty
C24_Witness ==
  /\ \E c \in 1..Len(CurrentChunks) : CurrentChunks[c].paragraph_indices = <<>>
  /\ \E c \in 1..Len(CurrentChunks) : CurrentChunks[c].paragraph_index = Some(1)

\* C27: for chunks emitted consecutively from one block the start offsets and
\* the end offsets both strictly increase, so no chunk lies wholly inside the
\* chunk emitted before it
C27_SpansAdvance ==
  \A c \in 1..(Len(CurrentChunks) - 1) :
    /\ CurrentChunks[c].char_span[1] < CurrentChunks[c + 1].char_span[1]
    /\ CurrentChunks[c].char_span[2] < CurrentChunks[c + 1].char_span[2]

\* ----------------------------------------------------- graph fusion claims
\* C29: retrieve_with_gear_fusion hands back the index list and the score
\* list its retrieve_with_reranking call handed it, whether or not the
\* ranking went through the fusion.
C29_FusionKeepsRanking ==
  \A q \in Clients :
     (call[q].fuse /\ call[q].pc \in HandedBack \ {"fuse"}) =>
       /\ call[q].fused_indices = call[q].indices
       /\ call[q].fused_scores = call[q].scores

\* ----------------------------------------------------- serving claims
\* the selected index, the metadata, the id mapping and the chunk list are
\* what the constructor loaded from the artifacts
AsLoaded ==
  /\ index_choice = LoadIndices(fs_files, fs_nvec, arg_index_choice).index_choice
  /\ index = LoadIndices(fs_files, fs_nvec, arg_index_choice).index
  /\ metadata = fs_metadata
  /\ index_to_id = fs_index_to_id
  /\ all_chunks = LoadMetadata(fs_metadata, fs_index_to_id).all_chunks

\* C21: whatever queries have run or are running, in any interleaving, the
\* selected index, the metadata, the id mapping and all_chunks are what the
\* constructor loaded; score and retrieval_index are fields of the result
\* records only, never of a record of all_chunks.
C21_ServingReadOnly ==
  /\ AsLoaded
  /\ \A i \in 1..Len(all_chunks) : DOMAIN all_chunks[i] = {"chunk_id"}
  /\ \A q \in Clients : \A j \in 1..Len(call[q].results) :
        /\ call[q].results[j].score = Ranking(call[q]).scores[j]
        /\ call[q].results[j].retrieval_index = Ranking(call[q]).indices[j]

\* generate_answer has handed back a scored source while the reranking call
\* of the other client waits for its worker
C21_Witness ==
  /\ call["q1"].op = "generate_answer"
  /\ call["q1"].pc = "returned"
  /\ Len(call["q1"].results) > 0
  /\ call["q1"].results[1].score = 2
  /\ call["q2"].pc = "communicate"
  /\ worker["q2"].state = "running"

\* ----------------------------------------------------- worker claims
\* retrieve_with_reranking of q's call has handed back its ranking
RerankingReturned(q) ==
  call[q].pc \in HandedBack /\ ViaReranking(call[q].op, call[q].use_fusion)

\* the ranking q's call got is made of the reply of the worker that call
\* started, which has ended and has been waited for
UsesOwnReply(q) ==
  /\ worker[q].state = "reaped"
  /\ Len(worker[q].scores) \in {0, Len(call[q].texts)}
  /\ LET cause == ReplyCause(worker[q].returncode, worker[q].stdout)
         r == IF cause = "none"
              THEN Reranked(call[q].candidate_indices, worker[q].scores, call[q].top_k)
              ELSE Fallback(call[q].candidate_indices, call[q].top_k)
     IN /\ call[q].cause = IF cause = "none" THEN "reranked" ELSE cause
        /\ call[q].indices = r.indices
        /\ call[q].scores = r.scores

\* C26 as stated: every reranking call that has returned started exactly one
\* worker when the reranker is enabled and none when it is disabled, and its
\* ranking is made of the reply of that worker, which has ended.
C26_ExactlyOneWorker ==
  \A q \in Clients :
     RerankingReturned(q) =>
       IF use_reranker
       THEN call[q].spawned = 1 /\ UsesOwnReply(q)
       ELSE call[q].spawned = 0 /\ worker[q].state = "none"

\* C26, amended: a call never starts a second worker, and a worker is there
\* only for the call that started it; a reranking call that has returned
\* started exactly one worker when the reranker is enabled and the process
\* could be started, and then its ranking is made of the reply of that
\* worker, which has ended; it started none when the reranker is disabled or
\* the process could not be started.
C26_OneWorkerUnlessStartFails ==
  \A q \in Clients :
     /\ call[q].spawned <= 1
     /\ worker[q].state /= "none" => call[q].spawned = 1
     /\ RerankingReturned(q) =>
          IF use_reranker /\ call[q].cause /= "spawn"
          THEN call[q].spawned = 1 /\ UsesOwnReply(q)
          ELSE call[q].spawned = 0 /\ worker[q].state = "none"

\* both clients have their reranked result, each from the scores of its own
\* worker: the two workers gave different scores and the rankings differ
C26_Witness ==
  /\ \A q \in Clients : RerankingReturned(q) /\ call[q].cause = "reranked"
  /\ worker["q1"].scores /= worker["q2"].scores
  /\ call["q1"].scores /= call["q2"].scores
  /\ call["q1"].top_k = call["q2"].top_k

\* ----------------------------------------------------- build claims
\* C22: no call of extract_triples_from_text raises, whatever the key and
\* the service do, so extract_gear_triples runs through all chunks; every
\* triple it collects has a subject, a predicate and an object, none empty.
C22_ExtractionNeverRaises ==
  /\ build_pc /= "extract_raised"
  /\ \A j \in 1..Len(build_triples) :
        \A field \in 1..3 : build_triples[j][field] /= ""

\* the artifacts hold the n chunks of the build by position
SavedByPosition ==
  LET n == Len(build_chunks)
  IN /\ DOMAIN build_metadata = {ChunkKey(i) : i \in 0..(n - 1)}
     /\ \A i \in 0..(n - 1) :
           /\ build_metadata[ChunkKey(i)].chunk_id = i
           /\ build_metadata[ChunkKey(i)].text = build_chunks[i + 1].text
     /\ DOMAIN build_index_to_id = 0..(n - 1)
     /\ DOMAIN build_id_to_index = {ChunkKey(i) : i \in 0..(n - 1)}
     /\ \A i \in 0..(n - 1) : build_id_to_index[build_index_to_id[i]] = i
     /\ \A key \in DOMAIN build_id_to_index : build_index_to_id[build_id_to_index[key]] = key
     /\ \A variant \in Variants :
           /\ Len(build_indices[variant]) = n
           /\ \A i \in 0..(n - 1) :
                 build_indices[variant][i + 1] =
                   Encode(<<TextVariant(variant, build_chunks[i + 1])>>)[1]

\* C25: once save_three_indices has run, chunk i of the input is stored
\* under chunk_i with chunk_id i, id_to_index and index_to_id are inverse
\* bijections over 0..n-1, and each index holds the n vectors of its variant
\* in chunk order; a backend loading these artifacts has all_chunks of
\* length n with all_chunks[i].chunk_id = i, the i-th input chunk.
C25_ChunkIdIsPosition ==
  /\ build_pc \in {"saved", "loaded"} => SavedByPosition
  /\ build_pc /= "load_raised"
  /\ build_pc = "loaded" =>
       /\ Len(build_all_chunks) = Len(build_chunks)
       /\ \A i \in 0..(Len(build_chunks) - 1) :
             /\ build_all_chunks[i + 1].chunk_id = i
             /\ build_all_chunks[i + 1].text = build_chunks[i + 1].text

\* the artifacts of two chunks of different text, loaded
C25_Witness ==
  /\ build_pc = "loaded"
  /\ Len(build_chunks) = 2
  /\ build_chunks[1].text /= build_chunks[2].text
  /\ build_all_chunks[2].chunk_id = 1

====
